---- MODULE Spec2Model ----
(***************************************************************************)
(* CtxMap: the turn extractor (src/core/parser.ts) and the attribution     *)
(* engine (src/core/attribution.ts).                                       *)
(*                                                                         *)
(* Conventions.  A JavaScript string is the sequence of its characters.    *)
(* An optional value (undefined / null / a missing key) is the empty       *)
(* sequence, a present value v is <<v>>.  Token counters, their sums and   *)
(* differences are integers, and the one multiplication by 0.5 is exact;   *)
(* the percentages and the cost are doubles (see below).  JavaScript       *)
(* arrays are 0-based and sequences 1-based: the element at JavaScript     *)
(* index i is the element i + 1 of the sequence.                           *)
(***************************************************************************)
EXTENDS Integers, Sequences, FiniteSets, TLC

VARIABLES entries, turns, pc, compacts, compactArg, segments,
          toolStats, fileStats, limitArg, attributedTools, topConsumers,
          userRequestStats, toolSizeStats, usageArg, cost, report,
          fileContent, decoded, callArg, description, topOption

vars == <<entries, turns, pc, compacts, compactArg, segments,
          toolStats, fileStats, limitArg, attributedTools, topConsumers,
          userRequestStats, toolSizeStats, usageArg, cost, report,
          fileContent, decoded, callArg, description, topOption>>

\* What the by-request view, the by-size view, the cost estimator and the
\* report assembler write.
laterOutputs == <<userRequestStats, toolSizeStats, usageArg, cost, report>>

\* What the transcript reader and the description formatter read and write.
readerAndFormatter == <<fileContent, decoded, callArg, description>>

----------------------------------------------------------------------------
(* Bounds of the checked inputs.                                           *)

MaxEntries == 3

MaxTurns == 3

MaxCompacts == 2

MaxLimit == 2

----------------------------------------------------------------------------
(* Optional values and strings.                                            *)

Null == <<>>

Some(v) == <<v>>

Truthy(o) == o # Null /\ o[1] # <<>>

OrZero(o) == IF o = Null THEN 0 ELSE o[1]

ReadName == <<"R", "e", "a", "d">>

EditName == <<"E", "d", "i", "t">>

WriteName == <<"W", "r", "i", "t", "e">>

NotebookEditName == <<"N", "o", "t", "e", "b", "o", "o", "k", "E", "d", "i", "t">>

GlobName == <<"G", "l", "o", "b">>

GrepName == <<"G", "r", "e", "p">>

BashName == <<"B", "a", "s", "h">>

PatternPrefix == <<"p", "a", "t", "t", "e", "r", "n", ":">>

UndefinedText == <<"u", "n", "d", "e", "f", "i", "n", "e", "d">>

InitialContext == <<"i", "n", "i", "t", "i", "a", "l", "_", "c", "o", "n", "t", "e", "x", "t">>

LocalCommandMarker == <<"<", "l", "o", "c", "a", "l", "-", "c", "o", "m", "m", "a", "n", "d", "-">>

CommandNameMarker == <<"<", "c", "o", "m", "m", "a", "n", "d", "-", "n", "a", "m", "e", ">">>

InterruptMarker == <<"[", "R", "e", "q", "u", "e", "s", "t", " ", "i", "n", "t", "e", "r", "r", "u", "p", "t", "e", "d", " ", "b", "y", " ", "u", "s", "e", "r", "]">>

TaskName == <<"T", "a", "s", "k">>

WebFetchName == <<"W", "e", "b", "F", "e", "t", "c", "h">>

WebSearchName == <<"W", "e", "b", "S", "e", "a", "r", "c", "h">>

UNKNOWN_PATH == <<"(", "u", "n", "k", "n", "o", "w", "n", ")">>

\* The characters of an input key.
KeyText(key) ==
    CASE key = "file_path" -> <<"f", "i", "l", "e", "_", "p", "a", "t", "h">>
      [] key = "pattern" -> <<"p", "a", "t", "t", "e", "r", "n">>
      [] key = "command" -> <<"c", "o", "m", "m", "a", "n", "d">>
      [] key = "subagent_type" -> <<"s", "u", "b", "a", "g", "e", "n", "t", "_", "t", "y", "p", "e">>
      [] key = "url" -> <<"u", "r", "l">>
      [] key = "query" -> <<"q", "u", "e", "r", "y">>

UNKNOWN_TOOL == <<"u", "n", "k", "n", "o", "w", "n">>

startsWith(s, p) == Len(s) >= Len(p) /\ SubSeq(s, 1, Len(p)) = p

includes(s, p) == \E k \in 0..(Len(s) - Len(p)) : SubSeq(s, k + 1, k + Len(p)) = p

----------------------------------------------------------------------------
(* The turn extractor, src/core/parser.ts.                                 *)

\* The first tool_use item of the message content, or null.
RECURSIVE extractToolCallFrom(_, _)
extractToolCallFrom(items, k) ==
    IF k > Len(items) THEN Null
    ELSE IF items[k].type = "tool_use"
         THEN Some([toolId |-> items[k].id, toolName |-> items[k].name,
                    input |-> items[k].input, isError |-> FALSE, result |-> Null])
         ELSE extractToolCallFrom(items, k + 1)

\* extractToolCall that keeps the last tool_use item of the message.
extractToolCallLast(message) ==
    LET items == message.content.items
        uses == {k \in 1..Len(items) : items[k].type = "tool_use"}
        last == CHOOSE k \in uses : \A j \in uses : j <= k
    IN IF uses = {} THEN Null
       ELSE Some([toolId |-> items[last].id, toolName |-> items[last].name,
                  input |-> items[last].input, isError |-> FALSE, result |-> Null])

extractToolCall(message) == extractToolCallFrom(message.content.items, 1)

\* The inner loop of findToolResult over the items of one user message.
RECURSIVE matchingToolResult(_, _, _)
matchingToolResult(items, k, toolUseId) ==
    IF k > Len(items) THEN Null
    ELSE IF items[k].type = "tool_result" /\ items[k].tool_use_id = toolUseId
         THEN Some(items[k].content)
         ELSE matchingToolResult(items, k + 1, toolUseId)

\* startIndex is the position of the first entry that is examined.
RECURSIVE findToolResult(_, _, _)
findToolResult(toolUseId, es, startIndex) ==
    IF startIndex > Len(es) THEN Null
    ELSE LET entry == es[startIndex]
             isUser == /\ entry.type = "user"
                       /\ entry.message # Null
                       /\ entry.message[1].role = "user"
             found == IF isUser /\ ~entry.message[1].content.isString
                      THEN matchingToolResult(entry.message[1].content.items, 1, toolUseId)
                      ELSE Null
         IN IF found # Null THEN found
            ELSE findToolResult(toolUseId, es, startIndex + 1)

calculateContextTokens(usage) ==
    usage.input_tokens + OrZero(usage.cache_creation_input_tokens)
                       + OrZero(usage.cache_read_input_tokens)

\* The loop of extractUserText over array content: the first text item decides.
RECURSIVE firstUserText(_, _)
firstUserText(items, k) ==
    IF k > Len(items) THEN Null
    ELSE IF items[k].type = "text"
         THEN IF includes(items[k].text, InterruptMarker) THEN Null
              ELSE Some(items[k].text)
         ELSE firstUserText(items, k + 1)

extractUserText(entry) ==
    IF entry.type # "user" \/ entry.message = Null THEN Null
    ELSE IF entry.message[1].role # "user" THEN Null
    ELSE LET content == entry.message[1].content
         IN IF content.isString
            THEN IF \/ startsWith(content.text, LocalCommandMarker)
                    \/ startsWith(content.text, CommandNameMarker)
                    \/ includes(content.text, InterruptMarker)
                 THEN Null
                 ELSE Some(content.text)
            ELSE firstUserText(content.items, 1)

\* stopsScan that lets the scan run past assistant entries.
stopsScanNever(entry) == FALSE

\* The break of lines 228-230: an assistant entry ends the backward scan.
stopsScan(entry) == entry.type = "assistant"

\* The backward scan; k is the position examined now (startIndex - 1 at first).
RECURSIVE findUserPromptFrom(_, _)
findUserPromptFrom(es, k) ==
    IF k < 1 THEN Null
    ELSE LET entry == es[k]
             text == extractUserText(entry)
         IN IF entry.isSidechain THEN findUserPromptFrom(es, k - 1)
            ELSE IF Truthy(text) THEN text
            ELSE IF stopsScan(entry) THEN Null
            ELSE findUserPromptFrom(es, k - 1)

findUserPrompt(es, startIndex) == findUserPromptFrom(es, startIndex - 1)

\* skipsEntry without the sidechain test.
skipsEntryKeepsSidechain(entry) ==
    \/ entry.type # "assistant"
    \/ entry.message = Null
    \/ (entry.message # Null /\ entry.message[1].role # "assistant")
    \/ (entry.message # Null /\ entry.message[1].usage = Null)

\* The guard of the loop body of parseTurns: the entry is not a turn.
skipsEntry(entry) ==
    \/ entry.type # "assistant"
    \/ entry.isSidechain
    \/ entry.message = Null
    \/ (entry.message # Null /\ entry.message[1].role # "assistant")
    \/ (entry.message # Null /\ entry.message[1].usage = Null)

\* deltaFrom that takes the whole context as the delta of every turn.
deltaFromContextOnly(previousContext, contextTokens) == contextTokens

\* tokenDelta as line 262 computes it from the running previousContext.
deltaFrom(previousContext, contextTokens) ==
    IF previousContext > 0 THEN contextTokens - previousContext ELSE contextTokens

\* One iteration of the loop of parseTurns for an entry that becomes a turn.
makeTurn(es, i, turnIndex, previousContext) ==
    LET entry == es[i]
        message == entry.message[1]
        usage == message.usage[1]
        contextTokens == calculateContextTokens(usage)
        tokenDelta == deltaFrom(previousContext, contextTokens)
        toolCall == extractToolCall(message)
        result == IF toolCall = Null THEN Null
                  ELSE findToolResult(toolCall[1].toolId, es, i + 1)
    IN [turnIndex |-> turnIndex,
        timestamp |-> entry.timestamp,
        toolCall |-> IF toolCall # Null /\ Truthy(result)
                     THEN Some([toolCall[1] EXCEPT !.result = result])
                     ELSE toolCall,
        usage |-> usage,
        contextTokens |-> contextTokens,
        tokenDelta |-> tokenDelta,
        outputTokens |-> usage.output_tokens,
        userPrompt |-> findUserPrompt(es, i),
        resultSize |-> IF toolCall # Null /\ Truthy(result)
                       THEN Some(Len(result[1])) ELSE Null]

RECURSIVE parseTurnsFrom(_, _, _, _, _)
parseTurnsFrom(es, i, acc, turnIndex, previousContext) ==
    IF i > Len(es) THEN acc
    ELSE IF skipsEntry(es[i])
         THEN parseTurnsFrom(es, i + 1, acc, turnIndex, previousContext)
         ELSE LET turn == makeTurn(es, i, turnIndex, previousContext)
              IN parseTurnsFrom(es, i + 1, Append(acc, turn), turnIndex + 1,
                                turn.contextTokens)

parseTurns(es) == parseTurnsFrom(es, 1, <<>>, 0, 0)

\* The entries as parseTurns leaves them.  The one write of the loop,
\* toolCall.result = result (line 272), goes to the object extractToolCall has
\* just built, and the turn takes usage and input by reference without writing
\* to them: no entry changes.
entriesAfterParseTurns(es) == es

----------------------------------------------------------------------------
(* Helpers shared by the attribution engine, src/core/attribution.ts.      *)

MODEL_WINDOW == 200000

\* COMPACT_THRESHOLD = 0.5 as the fraction COMPACT_THRESHOLD_NUM / COMPACT_THRESHOLD_DEN.
COMPACT_THRESHOLD_NUM == 1

COMPACT_THRESHOLD_DEN == 2

DEFAULT_LIMIT == 10

Min(a, b) == IF a < b THEN a ELSE b

Max(a, b) == IF a > b THEN a ELSE b

\* Array.prototype.slice(start, end).
slice(s, start, end) ==
    LET rel(k) == IF k < 0 THEN Max(Len(s) + k, 0) ELSE Min(k, Len(s))
    IN SubSeq(s, rel(start) + 1, rel(end))

\* Array.prototype.sort with the comparator (a, b) => b.key - a.key on
\* <<key, value>> pairs: descending by key, stable.
\* insertDesc that places an element before the elements equal to it.
RECURSIVE insertDescBeforeEqual(_, _, _)
insertDescBeforeEqual(s, x, k) ==
    IF k > Len(s) THEN Append(s, x)
    ELSE IF s[k][1] <= x[1]
         THEN SubSeq(s, 1, k - 1) \o <<x>> \o SubSeq(s, k, Len(s))
         ELSE insertDescBeforeEqual(s, x, k + 1)

RECURSIVE insertDesc(_, _, _)
insertDesc(s, x, k) ==
    IF k > Len(s) THEN Append(s, x)
    ELSE IF s[k][1] < x[1]
         THEN SubSeq(s, 1, k - 1) \o <<x>> \o SubSeq(s, k, Len(s))
         ELSE insertDesc(s, x, k + 1)

RECURSIVE sortDescFrom(_, _, _)
sortDescFrom(s, k, acc) ==
    IF k > Len(s) THEN acc
    ELSE sortDescFrom(s, k + 1, insertDesc(acc, s[k], 1))

sortDesc(pairs) == sortDescFrom(pairs, 1, <<>>)

RECURSIVE sumOf(_)
sumOf(ns) == IF ns = <<>> THEN 0 ELSE ns[1] + sumOf(Tail(ns))

RECURSIVE maxOf(_)
maxOf(ns) == IF Len(ns) = 1 THEN ns[1] ELSE Max(ns[1], maxOf(Tail(ns)))

\* Math.round(n / d) for d > 0: the nearest integer, a half rounds up.
roundDiv(n, d) == (2 * n + d) \div (2 * d)

----------------------------------------------------------------------------
(* JavaScript numbers that need not be whole: IEEE 754 doubles.  A double  *)
(* is [neg, m, e] with the value (-1)^neg * m * 2^e, where the natural     *)
(* number m is below 2^53 after every operation (round to nearest, ties to *)
(* even).  m is held as the sequence of its base-4096 digits, lowest       *)
(* first, without leading zeros; 0 is the empty sequence.  The numbers of  *)
(* the engine stay far from the exponent limits of the format.             *)

abs(n) == IF n < 0 THEN 0 - n ELSE n

RECURSIVE bigOf(_)
bigOf(n) == IF n = 0 THEN <<>> ELSE <<n % 4096>> \o bigOf(n \div 4096)

RECURSIVE trim(_)
trim(a) == IF a # <<>> /\ a[Len(a)] = 0 THEN trim(SubSeq(a, 1, Len(a) - 1)) ELSE a

limb(a, k) == IF k <= Len(a) THEN a[k] ELSE 0

RECURSIVE addFrom(_, _, _, _)
addFrom(a, b, k, carry) ==
    IF k > Max(Len(a), Len(b)) THEN bigOf(carry)
    ELSE LET s == limb(a, k) + limb(b, k) + carry
         IN <<s % 4096>> \o addFrom(a, b, k + 1, s \div 4096)

bigAdd(a, b) == addFrom(a, b, 1, 0)

RECURSIVE subFrom(_, _, _, _)
subFrom(a, b, k, borrow) ==
    IF k > Len(a) THEN <<>>
    ELSE LET s == limb(a, k) - limb(b, k) - borrow
         IN <<s % 4096>> \o subFrom(a, b, k + 1, IF s < 0 THEN 1 ELSE 0)

\* a - b for a >= b.
bigSub(a, b) == trim(subFrom(a, b, 1, 0))

RECURSIVE cmpFrom(_, _, _)
cmpFrom(a, b, k) ==
    IF k = 0 THEN 0
    ELSE IF a[k] > b[k] THEN 1
    ELSE IF a[k] < b[k] THEN -1
    ELSE cmpFrom(a, b, k - 1)

\* 1, 0 or -1 as a is above, equal to or below b.
bigCmp(a, b) ==
    IF Len(a) > Len(b) THEN 1
    ELSE IF Len(a) < Len(b) THEN -1
    ELSE cmpFrom(a, b, Len(a))

RECURSIVE mulFrom(_, _, _, _)
mulFrom(a, n, k, carry) ==
    IF k > Len(a) THEN bigOf(carry)
    ELSE LET p == a[k] * n + carry
         IN <<p % 4096>> \o mulFrom(a, n, k + 1, p \div 4096)

\* a * n for a natural number n below 2^18.
bigMulSmall(a, n) == IF n = 0 THEN <<>> ELSE mulFrom(a, n, 1, 0)

RECURSIVE divFrom(_, _, _, _)
divFrom(a, d, k, rem) ==
    IF k = 0 THEN [q |-> <<>>, r |-> rem]
    ELSE LET cur == rem * 4096 + a[k]
             rest == divFrom(a, d, k - 1, cur % d)
         IN [q |-> Append(rest.q, cur \div d), r |-> rest.r]

\* Quotient and remainder of a by a natural number d, 0 < d < 2^18.
bigDivSmall(a, d) ==
    LET qr == divFrom(a, d, Len(a), 0)
    IN [q |-> trim(qr.q), r |-> qr.r]

zeros(n) == [k \in 1..n |-> 0]

\* a * 2^bits.
shiftLeft(a, bits) ==
    IF a = <<>> THEN <<>>
    ELSE zeros(bits \div 12) \o bigMulSmall(a, 2 ^ (bits % 12))

\* a divided by 2^bits, rounded down.
shiftRight(a, bits) ==
    IF bits \div 12 >= Len(a) THEN <<>>
    ELSE bigDivSmall(SubSeq(a, bits \div 12 + 1, Len(a)), 2 ^ (bits % 12)).q

RECURSIVE bitsOf(_)
bitsOf(n) == IF n = 0 THEN 0 ELSE 1 + bitsOf(n \div 2)

bitLen(a) == IF a = <<>> THEN 0 ELSE 12 * (Len(a) - 1) + bitsOf(a[Len(a)])

RECURSIVE mulLimbs(_, _, _)
mulLimbs(a, b, k) ==
    IF k > Len(b) THEN <<>>
    ELSE bigAdd(zeros(k - 1) \o bigMulSmall(a, b[k]), mulLimbs(a, b, k + 1))

bigMul(a, b) == trim(mulLimbs(a, b, 1))

\* Bit number pos of a, the lowest bit being number 0.
bitAt(a, pos) == (limb(a, pos \div 12 + 1) \div (2 ^ (pos % 12))) % 2

\* The lowest bits bits of a are all 0.
lowBitsZero(a, bits) ==
    /\ \A k \in 1..(bits \div 12) : limb(a, k) = 0
    /\ limb(a, bits \div 12 + 1) % (2 ^ (bits % 12)) = 0

\* The double nearest to (-1)^neg * m * 2^e, ties to the even mantissa.
round53(neg, m, e) ==
    IF bitLen(m) <= 53 THEN [neg |-> neg, m |-> m, e |-> e]
    ELSE LET s == bitLen(m) - 53
             q == shiftRight(m, s)
             up == /\ bitAt(m, s - 1) = 1
                   /\ (~lowBitsZero(m, s - 1) \/ q[1] % 2 = 1)
         IN [neg |-> neg, m |-> IF up THEN bigAdd(q, <<1>>) ELSE q, e |-> e + s]

\* The double of an integer below 2^31 in magnitude.
numberOf(i) == [neg |-> i < 0, m |-> bigOf(abs(i)), e |-> 0]

RECURSIVE twosIn(_)
twosIn(d) == IF d % 2 = 0 THEN 1 + twosIn(d \div 2) ELSE 0

\* a / d for a whole d > 0 whose odd part is below 2^18: the quotient to 72
\* more bits than a has, a last bit set when the division leaves a remainder,
\* then rounded.
divide(a, d) ==
    IF a.m = <<>> THEN a
    ELSE LET t == twosIn(d)
             qr == bigDivSmall(shiftLeft(a.m, 72), d \div (2 ^ t))
         IN IF qr.r = 0 THEN round53(a.neg, qr.q, a.e - t - 72)
            ELSE round53(a.neg, bigAdd(bigMulSmall(qr.q, 2), <<1>>), a.e - t - 73)

\* a * b.
times(a, b) == round53(a.neg # b.neg, bigMul(a.m, b.m), a.e + b.e)

\* a + b.
plus(a, b) ==
    IF a.m = <<>> THEN b
    ELSE IF b.m = <<>> THEN a
    ELSE LET e == Min(a.e, b.e)
             x == shiftLeft(a.m, a.e - e)
             y == shiftLeft(b.m, b.e - e)
             c == bigCmp(x, y)
         IN IF a.neg = b.neg THEN round53(a.neg, bigAdd(x, y), e)
            ELSE IF c = 0 THEN [neg |-> FALSE, m |-> <<>>, e |-> 0]
            ELSE IF c = 1 THEN round53(a.neg, bigSub(x, y), e)
            ELSE round53(b.neg, bigSub(y, x), e)

\* (n / d) * 100, the form of every percentage of the engine.
percentOf(n, d) == times(divide(numberOf(n), d), numberOf(100))

----------------------------------------------------------------------------
(* detectCompacts.                                                         *)

\* isCompactDrop with <= in place of <.
isCompactDropInclusive(prev, curr) ==
    prev > 0 /\ curr * COMPACT_THRESHOLD_DEN <= prev * COMPACT_THRESHOLD_NUM

\* isCompactDrop that asks for a positive context after the drop as well.
isCompactDropToPositive(prev, curr) ==
    prev > 0 /\ curr > 0 /\ curr * COMPACT_THRESHOLD_DEN < prev * COMPACT_THRESHOLD_NUM

\* The condition of line 41: prev > 0 && curr < prev * COMPACT_THRESHOLD.
isCompactDrop(prev, curr) ==
    prev > 0 /\ curr * COMPACT_THRESHOLD_DEN < prev * COMPACT_THRESHOLD_NUM

\* i is the JavaScript loop index: turns[i - 1] is ts[i], turns[i] is ts[i + 1].
RECURSIVE detectCompactsFrom(_, _, _)
detectCompactsFrom(ts, i, acc) ==
    IF i >= Len(ts) THEN acc
    ELSE LET prev == ts[i].contextTokens
             curr == ts[i + 1].contextTokens
         IN IF isCompactDrop(prev, curr)
            THEN detectCompactsFrom(ts, i + 1,
                     Append(acc, [turnIndex |-> i,
                                  timestamp |-> ts[i + 1].timestamp,
                                  beforeTokens |-> prev,
                                  afterTokens |-> curr,
                                  tokensSaved |-> prev - curr]))
            ELSE detectCompactsFrom(ts, i + 1, acc)

detectCompacts(ts) == detectCompactsFrom(ts, 1, <<>>)

----------------------------------------------------------------------------
(* segmentSession.                                                         *)

\* Timestamps are seconds; the code parses ISO strings to milliseconds.
calculateDuration(start, end) ==
    LET diffMs == (end - start) * 1000
        minutes == diffMs \div 60000
        seconds == (diffMs % 60000) \div 1000
    IN IF diffMs < 0 THEN [text |-> "0m", minutes |-> 0, seconds |-> 0]
       ELSE IF minutes = 0 THEN [text |-> "s", minutes |-> 0, seconds |-> seconds]
       ELSE [text |-> "m s", minutes |-> minutes, seconds |-> seconds]

\* segmentLabel numbering the segments after the first from 2.
segmentLabelOffByOne(segmentIndex) ==
    IF segmentIndex = 0 THEN [text |-> "Pre-compact", number |-> Null]
    ELSE [text |-> "Post-compact #", number |-> Some(segmentIndex + 1)]

\* The label of line 81; the number is kept next to the text it is printed after.
segmentLabel(segmentIndex) ==
    IF segmentIndex = 0 THEN [text |-> "Pre-compact", number |-> Null]
    ELSE [text |-> "Post-compact #", number |-> Some(segmentIndex)]

\* endTurn of line 83: the last turn before the boundary.
endTurnOfBoundaryItself(boundary) == boundary

endTurnOf(boundary) == boundary - 1

\* segmentPeak taking the context of the slice's last turn.
segmentPeakOfLastTurn(segmentTurns) == segmentTurns[Len(segmentTurns)].contextTokens

\* peakContext of line 72: Math.max over the contexts of the slice.
segmentPeak(segmentTurns) ==
    maxOf([k \in 1..Len(segmentTurns) |-> segmentTurns[k].contextTokens])

\* The segment pushed at lines 72-91 for a non-empty slice.
makeSegment(segmentTurns, segmentIndex, segmentStart, boundary) ==
    LET peakContext == segmentPeak(segmentTurns)
        startTs == segmentTurns[1].timestamp
        endTs == segmentTurns[Len(segmentTurns)].timestamp
    IN [index |-> segmentIndex,
        label |-> segmentLabel(segmentIndex),
        startTurn |-> segmentStart,
        endTurn |-> endTurnOf(boundary),
        turns |-> segmentTurns,
        peakContext |-> peakContext,
        peakContextPercent |-> percentOf(peakContext, MODEL_WINDOW),
        totalTokens |-> sumOf([k \in 1..Len(segmentTurns) |-> segmentTurns[k].tokenDelta]),
        duration |-> calculateDuration(startTs, endTs),
        startTimestamp |-> startTs,
        endTimestamp |-> endTs]

\* nextSegmentStart that skips the turn at the boundary.
nextSegmentStartAfterBoundary(boundary) == boundary + 1

\* segmentStart = compact.turnIndex (line 96).
nextSegmentStart(boundary) == boundary

\* The loop over compactPoints; k is the position of the boundary examined now.
RECURSIVE segmentLoop(_, _, _, _, _, _)
segmentLoop(ts, compactPoints, k, acc, segmentStart, segmentIndex) ==
    IF k > Len(compactPoints) THEN acc
    ELSE LET boundary == compactPoints[k].turnIndex
             segmentTurns == slice(ts, segmentStart, boundary)
         IN IF Len(segmentTurns) > 0
            THEN segmentLoop(ts, compactPoints, k + 1,
                     Append(acc, makeSegment(segmentTurns, segmentIndex, segmentStart, boundary)),
                     nextSegmentStart(boundary), segmentIndex + 1)
            ELSE segmentLoop(ts, compactPoints, k + 1, acc, nextSegmentStart(boundary),
                             segmentIndex)

segmentSession(ts, cs) ==
    IF Len(ts) = 0 THEN <<>>
    ELSE segmentLoop(ts, [k \in 1..(Len(cs) + 1) |->
                             IF k <= Len(cs) THEN [turnIndex |-> cs[k].turnIndex]
                             ELSE [turnIndex |-> Len(ts)]],
                     1, <<>>, 0, 0)

----------------------------------------------------------------------------
(* formatToolDescription, src/core/parser.ts.                              *)

\* input.<key>: a tool input is the function from its keys to their values.
field(input, key) == IF key \in DOMAIN input THEN Some(input[key]) ELSE Null

\* String.prototype.split on a set of one-character separators.
RECURSIVE splitFrom(_, _, _, _, _)
splitFrom(s, k, seps, cur, acc) ==
    IF k > Len(s) THEN Append(acc, cur)
    ELSE IF s[k] \in seps THEN splitFrom(s, k + 1, seps, <<>>, Append(acc, cur))
    ELSE splitFrom(s, k + 1, seps, Append(cur, s[k]), acc)

split(s, seps) == splitFrom(s, 1, seps, <<>>, <<>>)

\* `${value}` for a value that may be undefined.
templateText(o) == IF o = Null THEN UndefinedText ELSE o[1]

truncate(str, maxLength) ==
    IF ~Truthy(str) THEN <<>>
    ELSE IF Len(str[1]) <= maxLength THEN str[1]
    ELSE SubSeq(str[1], 1, maxLength - 3) \o <<".", ".", ".">>

formatPath(filePath) ==
    IF ~Truthy(filePath) THEN UNKNOWN_PATH
    ELSE LET parts == split(filePath[1], {"/", "\\"})
         IN IF Len(parts) <= 2 THEN filePath[1]
            ELSE parts[Len(parts) - 1] \o <<"/">> \o parts[Len(parts)]

\* JSON.stringify of a tool input with at most one key, a string value
\* without characters that need escaping.
stringifyInput(input) ==
    IF DOMAIN input = {} THEN <<"{", "}">>
    ELSE LET key == CHOOSE k \in DOMAIN input : TRUE
         IN <<"{", "\"">> \o KeyText(key) \o <<"\"", ":", "\"">> \o input[key] \o <<"\"", "}">>

formatToolDescription(toolCall) ==
    LET toolName == toolCall.toolName
        input == toolCall.input
    IN CASE toolName = ReadName -> ReadName \o <<" ">> \o formatPath(field(input, "file_path"))
         [] toolName = EditName -> EditName \o <<" ">> \o formatPath(field(input, "file_path"))
         [] toolName = WriteName -> WriteName \o <<" ">> \o formatPath(field(input, "file_path"))
         [] toolName = BashName -> BashName \o <<" ">> \o truncate(field(input, "command"), 30)
         [] toolName = GlobName -> GlobName \o <<" ">> \o templateText(field(input, "pattern"))
         [] toolName = GrepName ->
                GrepName \o <<" ", "\"">> \o truncate(field(input, "pattern"), 20) \o <<"\"">>
         [] toolName = TaskName ->
                TaskName \o <<" ", "(">> \o templateText(field(input, "subagent_type")) \o <<")">>
         [] toolName = WebFetchName ->
                WebFetchName \o <<" ">> \o truncate(field(input, "url"), 30)
         [] toolName = WebSearchName ->
                WebSearchName \o <<" ", "\"">> \o truncate(field(input, "query"), 25) \o <<"\"">>
         [] OTHER ->
                toolName \o <<" ">>
                    \o truncate(Some(SubSeq(stringifyInput(input), 1,
                                            Min(30, Len(stringifyInput(input))))), 30)

----------------------------------------------------------------------------
(* The attribution resolver and the aggregators.                           *)

\* getAttributedToolCall without the test for a positive delta.
getAttributedToolCallAnyDelta(ts, turnIndex) ==
    LET turn == ts[turnIndex + 1]
    IN IF turn.toolCall # Null THEN turn.toolCall
       ELSE IF turnIndex > 0
            THEN IF ts[turnIndex].toolCall # Null THEN ts[turnIndex].toolCall ELSE Null
            ELSE Null

\* turnIndex is the JavaScript index: turns[turnIndex] is ts[turnIndex + 1].
getAttributedToolCall(ts, turnIndex) ==
    LET turn == ts[turnIndex + 1]
    IN IF turn.toolCall # Null THEN turn.toolCall
       ELSE IF turn.tokenDelta > 0 /\ turnIndex > 0
            THEN IF ts[turnIndex].toolCall # Null THEN ts[turnIndex].toolCall ELSE Null
            ELSE Null

\* A Map is the sequence of its entries in insertion order; each entry has a key.
mapIndex(map, key) ==
    IF \E k \in 1..Len(map) : map[k].key = key
    THEN CHOOSE k \in 1..Len(map) : map[k].key = key
    ELSE 0

\* mapSet that never replaces an entry.
mapSetAlwaysAppends(map, entry) == Append(map, entry)

mapSet(map, entry) ==
    IF mapIndex(map, entry.key) = 0 THEN Append(map, entry)
    ELSE [map EXCEPT ![mapIndex(map, entry.key)] = entry]

\* attributedTool?.toolName || 'initial_context' (line 163).
toolGroupName(attributedTool) ==
    IF attributedTool # Null /\ attributedTool[1].toolName # <<>>
    THEN attributedTool[1].toolName
    ELSE InitialContext

\* The loop of lines 160-182; i is the JavaScript index of the turn.
RECURSIVE toolMapFrom(_, _, _)
toolMapFrom(ts, i, toolMap) ==
    IF i >= Len(ts) THEN toolMap
    ELSE LET turn == ts[i + 1]
             toolName == toolGroupName(getAttributedToolCall(ts, i))
             at == mapIndex(toolMap, toolName)
             stats == IF at # 0 THEN toolMap[at]
                      ELSE [key |-> toolName, count |-> 0, inputTokens |-> 0,
                            outputTokens |-> 0, cacheCreation |-> 0, cacheRead |-> 0,
                            contextTokens |-> 0]
             updated ==
                 [key |-> toolName,
                  count |-> stats.count + 1,
                  inputTokens |-> stats.inputTokens + turn.usage.input_tokens,
                  outputTokens |-> stats.outputTokens + turn.usage.output_tokens,
                  cacheCreation |-> stats.cacheCreation
                                      + OrZero(turn.usage.cache_creation_input_tokens),
                  cacheRead |-> stats.cacheRead + OrZero(turn.usage.cache_read_input_tokens),
                  contextTokens |-> stats.contextTokens + turn.tokenDelta]
         IN toolMapFrom(ts, i + 1, mapSet(toolMap, updated))

\* percentOfSession without the factor 100.
percentOfSessionAsFraction(contextTokens, totalContext) ==
    IF totalContext > 0 THEN divide(numberOf(contextTokens), totalContext) ELSE numberOf(0)

\* percentOfSession of line 195.
percentOfSession(contextTokens, totalContext) ==
    IF totalContext > 0 THEN percentOf(contextTokens, totalContext) ELSE numberOf(0)

aggregateToolStats(ts) ==
    LET toolMap == toolMapFrom(ts, 0, <<>>)
        totalContext == sumOf([k \in 1..Len(ts) |-> ts[k].tokenDelta])
        results == [k \in 1..Len(toolMap) |->
                       [toolName |-> toolMap[k].key,
                        count |-> toolMap[k].count,
                        totalInputTokens |-> toolMap[k].inputTokens,
                        totalOutputTokens |-> toolMap[k].outputTokens,
                        totalCacheCreation |-> toolMap[k].cacheCreation,
                        totalCacheRead |-> toolMap[k].cacheRead,
                        totalContextTokens |-> toolMap[k].contextTokens,
                        percentOfSession |->
                            percentOfSession(toolMap[k].contextTokens, totalContext)]]
        sorted == sortDesc([k \in 1..Len(results) |->
                               <<results[k].totalContextTokens, results[k]>>])
    IN [k \in 1..Len(sorted) |-> sorted[k][2]]

\* The switch of lines 222-235: the path a tool call is filed under, if any.
extractFilePath(toolCall) ==
    LET toolName == toolCall.toolName
    IN IF toolName \in {ReadName, EditName, WriteName, NotebookEditName}
       THEN field(toolCall.input, "file_path")
       ELSE IF toolName \in {GlobName, GrepName}
            THEN Some(PatternPrefix \o templateText(field(toolCall.input, "pattern")))
            ELSE Null

\* `${toolName}:${filePath}` (line 238).
fileKey(toolName, filePath) == toolName \o <<":">> \o filePath

\* const [, filePath] = key.split(':', 2) (line 255).
filePathOfKey(key) ==
    LET parts == slice(split(key, {":"}), 0, 2)
    IN IF Len(parts) >= 2 THEN Some(parts[2]) ELSE Null

\* The loop of lines 215-250; k is the position of the turn.
RECURSIVE fileMapFrom(_, _, _)
fileMapFrom(ts, k, fileMap) ==
    IF k > Len(ts) THEN fileMap
    ELSE IF ts[k].toolCall = Null THEN fileMapFrom(ts, k + 1, fileMap)
    ELSE LET toolCall == ts[k].toolCall[1]
             filePath == extractFilePath(toolCall)
         IN IF ~Truthy(filePath) THEN fileMapFrom(ts, k + 1, fileMap)
            ELSE LET key == fileKey(toolCall.toolName, filePath[1])
                     at == mapIndex(fileMap, key)
                     stats == IF at # 0 THEN fileMap[at]
                              ELSE [key |-> key, toolName |-> toolCall.toolName,
                                    count |-> 0, tokens |-> 0]
                     updated == [stats EXCEPT !.count = @ + 1,
                                              !.tokens = @ + ts[k].tokenDelta]
                 IN fileMapFrom(ts, k + 1, mapSet(fileMap, updated))

aggregateFileStats(ts) ==
    LET fileMap == fileMapFrom(ts, 1, <<>>)
        results == [k \in 1..Len(fileMap) |->
                       [filePath |-> filePathOfKey(fileMap[k].key),
                        toolName |-> fileMap[k].toolName,
                        count |-> fileMap[k].count,
                        totalTokens |-> fileMap[k].tokens,
                        avgTokens |-> roundDiv(fileMap[k].tokens, fileMap[k].count)]]
        sorted == sortDesc([k \in 1..Len(results) |-> <<results[k].totalTokens, results[k]>>])
    IN [k \in 1..Len(sorted) |-> sorted[k][2]]

----------------------------------------------------------------------------
(* getTopConsumers.                                                        *)

\* The attributedTool column of attributedTurns (lines 276-279).
attributedTurns(ts) == [k \in 1..Len(ts) |-> getAttributedToolCall(ts, k - 1)]

\* The filter of line 283.
isConsumer(turn, attributedTool) == turn.tokenDelta > 0 /\ attributedTool # Null

RECURSIVE filterConsumers(_, _, _)
filterConsumers(ts, i, acc) ==
    IF i >= Len(ts) THEN acc
    ELSE LET attributedTool == attributedTurns(ts)[i + 1]
         IN IF isConsumer(ts[i + 1], attributedTool)
            THEN filterConsumers(ts, i + 1,
                     Append(acc, [turn |-> ts[i + 1], attributedTool |-> attributedTool]))
            ELSE filterConsumers(ts, i + 1, acc)

\* nextCumulative that assigns instead of adding.
nextCumulativeAssigns(cumulative, tokenDelta) == tokenDelta

\* cumulative += turn.tokenDelta (line 291).
nextCumulative(cumulative, tokenDelta) == cumulative + tokenDelta

\* The loop of lines 290-299.
RECURSIVE consumersFrom(_, _, _, _)
consumersFrom(sortedTurns, k, cumulative, acc) ==
    IF k > Len(sortedTurns) THEN acc
    ELSE LET turn == sortedTurns[k].turn
             attributedTool == sortedTurns[k].attributedTool[1]
             sum == nextCumulative(cumulative, turn.tokenDelta)
         IN consumersFrom(sortedTurns, k + 1, sum,
                Append(acc, [description |-> formatToolDescription(attributedTool),
                             tokens |-> turn.tokenDelta,
                             cumulative |-> sum,
                             toolName |-> IF attributedTool.toolName # <<>>
                                          THEN attributedTool.toolName ELSE UNKNOWN_TOOL,
                             turnIndex |-> turn.turnIndex]))

\* sortAndLimit that cuts to the limit before it sorts.
limitThenSort(candidates, limit) ==
    LET cut == slice(candidates, 0, limit)
        sorted == sortDesc([k \in 1..Len(cut) |-> <<cut[k].turn.tokenDelta, cut[k]>>])
    IN [k \in 1..Len(sorted) |-> sorted[k][2]]

\* .sort((a, b) => b.tokenDelta - a.tokenDelta).slice(0, limit) (lines 284-285).
sortAndLimit(candidates, limit) ==
    LET sorted == sortDesc([k \in 1..Len(candidates) |->
                               <<candidates[k].turn.tokenDelta, candidates[k]>>])
    IN slice([k \in 1..Len(sorted) |-> sorted[k][2]], 0, limit)

getTopConsumers(ts, limit) ==
    consumersFrom(sortAndLimit(filterConsumers(ts, 0, <<>>), limit), 1, 0, <<>>)

\* The turns as a sort of the array itself would leave them.
turnsSortedInPlace(ts) ==
    LET sorted == sortDesc([k \in 1..Len(ts) |-> <<ts[k].tokenDelta, ts[k]>>])
    IN [k \in 1..Len(sorted) |-> sorted[k][2]]

\* The turns as getTopConsumers leaves them.  Array.prototype.sort works in
\* place, but on the array .filter returned from the array .map returned
\* (lines 277-284): the argument keeps its turns and their order.
turnsAfterGetTopConsumers(ts) == ts

----------------------------------------------------------------------------
(* calculateCost.                                                          *)

\* The pricing table of lines 22-27: 15.0, 75.0, 18.75 = 75 / 4 and
\* 1.50 = 3 / 2 per million tokens.
PRICING ==
    [input |-> numberOf(15), output |-> numberOf(75),
     cacheCreation |-> [neg |-> FALSE, m |-> bigOf(75), e |-> -2],
     cacheRead |-> [neg |-> FALSE, m |-> bigOf(3), e |-> -1]]

\* calculateCost charging every counter at the input rate.
calculateCostFlatRate(usage) ==
    plus(plus(plus(times(divide(numberOf(usage.inputTokens), 1000000), PRICING.input),
                   times(divide(numberOf(usage.outputTokens), 1000000), PRICING.input)),
              times(divide(numberOf(usage.cacheCreation), 1000000), PRICING.input)),
         times(divide(numberOf(usage.cacheRead), 1000000), PRICING.input))

calculateCost(usage) ==
    plus(plus(plus(times(divide(numberOf(usage.inputTokens), 1000000), PRICING.input),
                   times(divide(numberOf(usage.outputTokens), 1000000), PRICING.output)),
              times(divide(numberOf(usage.cacheCreation), 1000000), PRICING.cacheCreation)),
         times(divide(numberOf(usage.cacheRead), 1000000), PRICING.cacheRead))

----------------------------------------------------------------------------
(* generateReport.                                                         *)

\* turns[index]?.timestamp || '' (lines 358-359); the empty string is Null.
timestampOrEmpty(ts, index) ==
    IF index >= 0 /\ index < Len(ts) THEN Some(ts[index + 1].timestamp) ELSE Null

\* calculateDuration on the report's timestamps: an empty string does not
\* parse, the difference is NaN and line 111 answers '0m'.
reportDuration(start, end) ==
    IF start = Null \/ end = Null THEN [text |-> "0m", minutes |-> 0, seconds |-> 0]
    ELSE calculateDuration(start[1], end[1])

\* peakContextOf without the trailing 0: Math.max() of no argument is
\* -Infinity, a number below every context size.
peakContextOfNoFloor(ts) ==
    IF ts = <<>> THEN -10000000
    ELSE maxOf([k \in 1..Len(ts) |-> ts[k].contextTokens])

\* Math.max(...turns.map(t => t.contextTokens), 0) (line 348).
peakContextOf(ts) == maxOf(Append([k \in 1..Len(ts) |-> ts[k].contextTokens], 0))

\* The report of lines 361-382, field by field.
generateReport(sessionId, projectPath, ts) ==
    LET compactEvents == detectCompacts(ts)
        totalInputTokens == sumOf([k \in 1..Len(ts) |-> ts[k].usage.input_tokens])
        totalOutputTokens == sumOf([k \in 1..Len(ts) |-> ts[k].usage.output_tokens])
        totalCacheCreation ==
            sumOf([k \in 1..Len(ts) |-> OrZero(ts[k].usage.cache_creation_input_tokens)])
        totalCacheRead ==
            sumOf([k \in 1..Len(ts) |-> OrZero(ts[k].usage.cache_read_input_tokens)])
        peakContext == peakContextOf(ts)
        startTimestamp == timestampOrEmpty(ts, 0)
        endTimestamp == timestampOrEmpty(ts, Len(ts) - 1)
    IN [sessionId |-> sessionId,
        projectPath |-> projectPath,
        startTimestamp |-> startTimestamp,
        endTimestamp |-> endTimestamp,
        duration |-> reportDuration(startTimestamp, endTimestamp),
        totalTurns |-> Len(ts),
        totalInputTokens |-> totalInputTokens,
        totalOutputTokens |-> totalOutputTokens,
        totalCacheCreation |-> totalCacheCreation,
        totalCacheRead |-> totalCacheRead,
        totalContextTokens |-> sumOf([k \in 1..Len(ts) |-> ts[k].tokenDelta]),
        peakContext |-> peakContext,
        peakContextPercent |-> percentOf(peakContext, MODEL_WINDOW),
        modelWindow |-> MODEL_WINDOW,
        estimatedCost |-> calculateCost([inputTokens |-> totalInputTokens,
                                         outputTokens |-> totalOutputTokens,
                                         cacheCreation |-> totalCacheCreation,
                                         cacheRead |-> totalCacheRead]),
        segments |-> segmentSession(ts, compactEvents),
        compactEvents |-> compactEvents,
        topConsumers |-> getTopConsumers(ts, DEFAULT_LIMIT),
        toolStats |-> aggregateToolStats(ts),
        fileStats |-> aggregateFileStats(ts)]

----------------------------------------------------------------------------
(* aggregateByUserMessage and aggregateToolSizeStats.  attribution.test.ts *)
(* imports both from core/attribution, whose text here does not define     *)
(* them; they follow the description of the by-user-request and by-size    *)
(* views, and the order of the size groups follows the test "should sort   *)
(* by total size descending".                                              *)

InitialContextLabel == <<"(", "i", "n", "i", "t", "i", "a", "l", " ", "c", "o", "n", "t", "e", "x", "t", ")">>

\* The prompt a turn is grouped under.
promptLabel(turn) == IF turn.userPrompt = Null THEN InitialContextLabel ELSE turn.userPrompt[1]

\* startsNewGroup that opens a group only for a prompt not seen before.
startsNewGroupUnlessSeen(groups, label) ==
    ~\E g \in 1..Len(groups) : groups[g].userPrompt = label

\* A new group starts when the prompt differs from that of the previous turn.
startsNewGroup(groups, label) ==
    groups = <<>> \/ groups[Len(groups)].userPrompt # label

RECURSIVE requestGroupsFrom(_, _, _)
requestGroupsFrom(ts, k, groups) ==
    IF k > Len(ts) THEN groups
    ELSE LET turn == ts[k]
             label == promptLabel(turn)
             tools == IF turn.toolCall # Null THEN 1 ELSE 0
         IN IF startsNewGroup(groups, label)
            THEN requestGroupsFrom(ts, k + 1,
                     Append(groups, [userPrompt |-> label,
                                     turnCount |-> 1,
                                     totalTokens |-> turn.tokenDelta,
                                     toolCount |-> tools,
                                     startTurn |-> turn.turnIndex,
                                     endTurn |-> turn.turnIndex]))
            ELSE requestGroupsFrom(ts, k + 1,
                     [groups EXCEPT ![Len(groups)] =
                         [@ EXCEPT !.turnCount = @ + 1,
                                   !.totalTokens = @ + turn.tokenDelta,
                                   !.toolCount = @ + tools,
                                   !.endTurn = turn.turnIndex]])

aggregateByUserMessage(ts) ==
    LET groups == requestGroupsFrom(ts, 1, <<>>)
        sorted == sortDesc([k \in 1..Len(groups) |-> <<groups[k].totalTokens, groups[k]>>])
    IN [k \in 1..Len(sorted) |-> sorted[k][2]]

\* sizeGroupName with the "initial_context" bucket of the by-tool view.
sizeGroupNameWithInitialContext(turn) ==
    IF turn.toolCall = Null THEN Some(InitialContext) ELSE Some(turn.toolCall[1].toolName)

\* The size group of a turn: the tool name of its own call, none without a call.
sizeGroupName(turn) ==
    IF turn.toolCall = Null THEN Null ELSE Some(turn.toolCall[1].toolName)

\* The file_path of the turn's call, when it has one.
sizeFilePath(turn) ==
    IF turn.toolCall = Null THEN Null ELSE field(turn.toolCall[1].input, "file_path")

\* The per-file breakdown of a group after one more turn.
filesWith(files, path, size) ==
    IF path = Null THEN files
    ELSE LET at == mapIndex(files, path[1])
             entry == IF at # 0 THEN files[at]
                      ELSE [key |-> path[1], path |-> path[1], sizeBytes |-> 0, count |-> 0]
         IN mapSet(files, [entry EXCEPT !.sizeBytes = @ + size, !.count = @ + 1])

RECURSIVE sizeMapFrom(_, _, _)
sizeMapFrom(ts, k, sizeMap) ==
    IF k > Len(ts) THEN sizeMap
    ELSE LET turn == ts[k]
             name == sizeGroupName(turn)
         IN IF name = Null THEN sizeMapFrom(ts, k + 1, sizeMap)
            ELSE LET at == mapIndex(sizeMap, name[1])
                     stats == IF at # 0 THEN sizeMap[at]
                              ELSE [key |-> name[1], count |-> 0, totalSizeBytes |-> 0,
                                    files |-> <<>>]
                     size == OrZero(turn.resultSize)
                     updated == [stats EXCEPT !.count = @ + 1,
                                              !.totalSizeBytes = @ + size,
                                              !.files = filesWith(@, sizeFilePath(turn), size)]
                 IN sizeMapFrom(ts, k + 1, mapSet(sizeMap, updated))

aggregateToolSizeStats(ts) ==
    LET sizeMap == sizeMapFrom(ts, 1, <<>>)
        results == [k \in 1..Len(sizeMap) |->
                       [toolName |-> sizeMap[k].key,
                        count |-> sizeMap[k].count,
                        totalSizeBytes |-> sizeMap[k].totalSizeBytes,
                        files |-> [f \in 1..Len(sizeMap[k].files) |->
                                      [path |-> sizeMap[k].files[f].path,
                                       sizeBytes |-> sizeMap[k].files[f].sizeBytes,
                                       count |-> sizeMap[k].files[f].count]]]]
        sorted == sortDesc([k \in 1..Len(results) |-> <<results[k].totalSizeBytes, results[k]>>])
    IN [k \in 1..Len(sorted) |-> sorted[k][2]]

----------------------------------------------------------------------------
(* The checked inputs: entry streams as the transcript reader hands them   *)
(* to parseTurns, and turn sequences as a caller of the engine builds them.*)

SeqsUpTo(S, n) == UNION {[1..k -> S] : k \in 0..n}

usageOf(input, output, cacheCreation, cacheRead) ==
    [input_tokens |-> input, output_tokens |-> output,
     cache_creation_input_tokens |-> cacheCreation,
     cache_read_input_tokens |-> cacheRead]

assistantEntry(timestamp, isSidechain, items, usage) ==
    [type |-> "assistant", timestamp |-> timestamp, isSidechain |-> isSidechain,
     message |-> Some([role |-> "assistant",
                       content |-> [isString |-> FALSE, items |-> items],
                       usage |-> usage])]

userEntry(timestamp, content) ==
    [type |-> "user", timestamp |-> timestamp, isSidechain |-> FALSE,
     message |-> Some([role |-> "user", content |-> content, usage |-> Null])]

toolUse(id, name, input) == [type |-> "tool_use", id |-> id, name |-> name, input |-> input]

EntryPool ==
    { assistantEntry(10, FALSE,
          << [type |-> "text", text |-> <<"o", "k">>],
             toolUse("toolu_01", ReadName, [file_path |-> <<"a">>]),
             toolUse("toolu_02", BashName, [command |-> <<"l", "s">>]) >>,
          Some(usageOf(1, 1, Some(2), Some(1)))),
      assistantEntry(20, FALSE, << [type |-> "text", text |-> <<"o", "k">>] >>,
          Some(usageOf(1, 2, Null, Null))),
      assistantEntry(30, FALSE, <<>>, Some(usageOf(-3, 1, Null, Some(0)))),
      assistantEntry(40, TRUE, <<>>, Some(usageOf(5, 1, Null, Null))),
      assistantEntry(50, FALSE, << [type |-> "text", text |-> <<"o", "k">>] >>, Null),
      userEntry(60, [isString |-> TRUE, text |-> <<"h", "i">>]),
      userEntry(70, [isString |-> FALSE,
                     items |-> << [type |-> "tool_result", tool_use_id |-> "toolu_01",
                                   content |-> <<"o", "u", "t">>] >>]),
      userEntry(80, [isString |-> TRUE, text |-> CommandNameMarker \o <<"x">>]),
      userEntry(65, [isString |-> TRUE, text |-> <<>>]),
      userEntry(75, [isString |-> FALSE,
                     items |-> << [type |-> "tool_result", tool_use_id |-> "toolu_01",
                                   content |-> <<"n", "o">>],
                                  [type |-> "text", text |-> <<"y", "o">>] >>]),
      userEntry(85, [isString |-> FALSE,
                     items |-> << [type |-> "tool_result", tool_use_id |-> "toolu_01",
                                   content |-> <<>>] >>]),
      [type |-> "summary", timestamp |-> 90, isSidechain |-> FALSE, message |-> Null] }

callOf(toolId, toolName, input) ==
    Some([toolId |-> toolId, toolName |-> toolName, input |-> input,
          isError |-> FALSE, result |-> Null])

\* A turn as a caller builds it; turnIndex is set when the sequence is formed.
turnOf(timestamp, toolCall, usage, contextTokens, tokenDelta) ==
    [turnIndex |-> 0, timestamp |-> timestamp, toolCall |-> toolCall, usage |-> usage,
     contextTokens |-> contextTokens, tokenDelta |-> tokenDelta,
     outputTokens |-> usage.output_tokens, userPrompt |-> Null, resultSize |-> Null]

\* Turns that differ in their context size.
ContextPool ==
    { turnOf(10, Null, usageOf(1, 1, Null, Null), -4, -4),
      turnOf(20, Null, usageOf(1, 1, Null, Null), 0, 0),
      turnOf(30, Null, usageOf(1, 1, Null, Null), 24999, 24999),
      turnOf(40, Null, usageOf(1, 1, Null, Null), 25000, 1),
      turnOf(50, Null, usageOf(1, 1, Null, Null), 50000, 25000) }

\* Turns that differ in their tool call, their delta and their usage counters.
ToolPool ==
    { turnOf(10, Null, usageOf(1, 2, Null, Null), 10, -2),
      turnOf(20, Null, usageOf(3, 1, Some(4), Some(2)), 10, 3),
      turnOf(30, callOf("1", ReadName, [file_path |-> <<"a">>]),
             usageOf(1, 2, Null, Some(5)), 10, 2),
      turnOf(40, callOf("2", ReadName, [file_path |-> <<"a">>]),
             usageOf(3, 1, Some(4), Some(2)), 10, -5),
      turnOf(50, callOf("3", ReadName, [file_path |-> <<"C", ":", "a">>]),
             usageOf(1, 2, Null, Null), 10, 3),
      turnOf(60, callOf("4", GrepName, [pattern |-> <<"x">>]),
             usageOf(2, 2, Some(1), Null), 10, 5),
      turnOf(70, callOf("5", BashName, [command |-> <<"l", "s">>]),
             usageOf(1, 2, Null, Null), 10, 3),
      turnOf(80, callOf("6", EditName, [file_path |-> <<"a">>]),
             usageOf(1, 1, Null, Null), 10, 0),
      turnOf(90, callOf("7", GlobName, [pattern |-> <<"x">>]),
             usageOf(1, 2, Null, Null), 10, 2),
      turnOf(95, callOf("8", ReadName, <<>>), usageOf(1, 2, Null, Null), 10, 2) }

\* A turn with the prompt and the result size the extractor attaches.
requestTurnOf(userPrompt, resultSize, toolCall, tokenDelta) ==
    [turnOf(10, toolCall, usageOf(1, 1, Null, Null), 10, tokenDelta)
        EXCEPT !.userPrompt = userPrompt, !.resultSize = resultSize]

\* Turns that differ in their prompt, their result size and their tool call.
RequestPool ==
    { requestTurnOf(Some(<<"a">>), Some(7), Null, 5),
      requestTurnOf(Some(<<"a">>), Some(5), callOf("1", ReadName, [file_path |-> <<"a">>]), 3),
      requestTurnOf(Some(<<"b">>), Null, callOf("2", ReadName, [file_path |-> <<"a">>]), 4),
      requestTurnOf(Some(<<"b">>), Some(2), callOf("3", BashName, [command |-> <<"l", "s">>]), -1),
      requestTurnOf(Null, Some(3), callOf("4", ReadName, [file_path |-> <<"b">>]), 2),
      requestTurnOf(Null, Null, Null, 1) }

----------------------------------------------------------------------------
(* The transcript reader, parseJsonlFile of src/core/parser.ts.  A file is *)
(* its text, a sequence of characters; a decoded value is a record whose   *)
(* one field names its JSON type.                                          *)

\* The white space String.prototype.trim removes, among the characters of
\* the files below; JSON.parse accepts the first four around a token.
TrimWhitespace == {" ", "\t", "\n", "\r", "\f"}

RECURSIVE trimStart(_)
trimStart(s) ==
    IF s # <<>> /\ Head(s) \in TrimWhitespace THEN trimStart(Tail(s)) ELSE s

RECURSIVE trimEnd(_)
trimEnd(s) ==
    IF s # <<>> /\ s[Len(s)] \in TrimWhitespace
    THEN trimEnd(SubSeq(s, 1, Len(s) - 1))
    ELSE s

\* String.prototype.trim.
stringTrim(s) == trimEnd(trimStart(s))

\* The position of the first character at or after k that is no JSON white
\* space, Len(s) + 1 when there is none.
RECURSIVE skipWhitespace(_, _)
skipWhitespace(s, k) ==
    IF k <= Len(s) /\ s[k] \in {" ", "\t", "\n", "\r"}
    THEN skipWhitespace(s, k + 1)
    ELSE k

wordAt(s, k, word) ==
    k + Len(word) - 1 <= Len(s) /\ SubSeq(s, k, k + Len(word) - 1) = word

\* The place of c among the ten digits, from 1 for "0", and 0 for any other
\* character.
digitIndex(c) ==
    LET digits == <<"0", "1", "2", "3", "4", "5", "6", "7", "8", "9">>
    IN IF \E d \in 1..10 : digits[d] = c
       THEN CHOOSE d \in 1..10 : digits[d] = c
       ELSE 0

\* The position after the digits that start at k.
RECURSIVE digitsEnd(_, _)
digitsEnd(s, k) ==
    IF k <= Len(s) /\ digitIndex(s[k]) # 0 THEN digitsEnd(s, k + 1) ELSE k

RECURSIVE numberValue(_)
numberValue(digits) ==
    IF digits = <<>> THEN 0
    ELSE 10 * numberValue(SubSeq(digits, 1, Len(digits) - 1))
            + (digitIndex(digits[Len(digits)]) - 1)

\* The position of the quote that closes the string whose text starts at k,
\* 0 when the string is not closed or holds a control character.
RECURSIVE stringEnd(_, _)
stringEnd(s, k) ==
    IF k > Len(s) THEN 0
    ELSE IF s[k] = "\"" THEN k
    ELSE IF s[k] \in {"\t", "\n", "\r", "\f"} THEN 0
    ELSE stringEnd(s, k + 1)

\* An object's member list with the value of key set: a repeated key keeps
\* its place and takes the later value.
RECURSIVE setMember(_, _, _)
setMember(members, key, value) ==
    IF members = <<>> THEN <<[key |-> key, value |-> value]>>
    ELSE IF members[1].key = key THEN <<[key |-> key, value |-> value]>> \o Tail(members)
    ELSE <<members[1]>> \o setMember(Tail(members), key, value)

\* The JSON value that starts at or after position k, with the position
\* after it, or null for a SyntaxError.  Numbers are whole and unsigned and
\* strings have no escapes: the files below hold no other.
RECURSIVE parseValue(_, _)
RECURSIVE parseElements(_, _, _)
RECURSIVE parseMembers(_, _, _)
parseValue(s, from) ==
    LET k == skipWhitespace(s, from)
    IN IF k > Len(s) THEN Null
       ELSE IF wordAt(s, k, <<"n", "u", "l", "l">>)
       THEN Some([value |-> [literal |-> "null"], next |-> k + 4])
       ELSE IF wordAt(s, k, <<"t", "r", "u", "e">>)
       THEN Some([value |-> [boolean |-> TRUE], next |-> k + 4])
       ELSE IF wordAt(s, k, <<"f", "a", "l", "s", "e">>)
       THEN Some([value |-> [boolean |-> FALSE], next |-> k + 5])
       ELSE IF s[k] = "\""
       THEN LET e == stringEnd(s, k + 1)
            IN IF e = 0 THEN Null
               ELSE Some([value |-> [string |-> SubSeq(s, k + 1, e - 1)], next |-> e + 1])
       ELSE IF digitIndex(s[k]) # 0
       THEN LET e == digitsEnd(s, k)
            IN IF s[k] = "0" /\ e > k + 1 THEN Null
               ELSE Some([value |-> [number |-> numberValue(SubSeq(s, k, e - 1))],
                          next |-> e])
       ELSE IF s[k] = "["
       THEN LET j == skipWhitespace(s, k + 1)
            IN IF j <= Len(s) /\ s[j] = "]"
               THEN Some([value |-> [array |-> <<>>], next |-> j + 1])
               ELSE parseElements(s, k + 1, <<>>)
       ELSE IF s[k] = "{"
       THEN LET j == skipWhitespace(s, k + 1)
            IN IF j <= Len(s) /\ s[j] = "}"
               THEN Some([value |-> [object |-> <<>>], next |-> j + 1])
               ELSE parseMembers(s, k + 1, <<>>)
       ELSE Null

parseElements(s, from, items) ==
    LET v == parseValue(s, from)
    IN IF v = Null THEN Null
       ELSE LET j == skipWhitespace(s, v[1].next)
            IN IF j > Len(s) THEN Null
               ELSE IF s[j] = ","
               THEN parseElements(s, j + 1, Append(items, v[1].value))
               ELSE IF s[j] = "]"
               THEN Some([value |-> [array |-> Append(items, v[1].value)],
                          next |-> j + 1])
               ELSE Null

parseMembers(s, from, members) ==
    LET k == skipWhitespace(s, from)
    IN IF k > Len(s) \/ s[k] # "\"" THEN Null
       ELSE LET e == stringEnd(s, k + 1)
            IN IF e = 0 THEN Null
               ELSE LET c == skipWhitespace(s, e + 1)
                    IN IF c > Len(s) \/ s[c] # ":" THEN Null
                       ELSE LET v == parseValue(s, c + 1)
                            IN IF v = Null THEN Null
                               ELSE LET j == skipWhitespace(s, v[1].next)
                                        all == setMember(members, SubSeq(s, k + 1, e - 1),
                                                         v[1].value)
                                    IN IF j > Len(s) THEN Null
                                       ELSE IF s[j] = ","
                                       THEN parseMembers(s, j + 1, all)
                                       ELSE IF s[j] = "}"
                                       THEN Some([value |-> [object |-> all],
                                                  next |-> j + 1])
                                       ELSE Null

\* JSON.parse(line): the value, or null for the SyntaxError it throws.
JSON_parse(line) ==
    LET v == parseValue(line, 1)
    IN IF v = Null THEN Null
       ELSE IF skipWhitespace(line, v[1].next) > Len(line) THEN Some(v[1].value)
       ELSE Null

\* The loop of lines 99-109 that gives up at the first line that fails to
\* decode.
RECURSIVE entriesUntilError(_, _, _)
entriesUntilError(lines, k, found) ==
    IF k > Len(lines) THEN found
    ELSE IF stringTrim(lines[k]) = <<>> THEN entriesUntilError(lines, k + 1, found)
    ELSE LET entry == JSON_parse(lines[k])
         IN IF entry = Null THEN found
            ELSE entriesUntilError(lines, k + 1, Append(found, entry[1]))

\* The loop of lines 99-109: a blank line is passed over, a line that
\* decodes is pushed, a line that throws is skipped in the catch block.
RECURSIVE entriesFrom(_, _, _)
entriesFrom(lines, k, found) ==
    IF k > Len(lines) THEN found
    ELSE IF stringTrim(lines[k]) = <<>> THEN entriesFrom(lines, k + 1, found)
    ELSE LET entry == JSON_parse(lines[k])
         IN IF entry = Null THEN entriesFrom(lines, k + 1, found)
            ELSE entriesFrom(lines, k + 1, Append(found, entry[1]))

parseJsonlFile(text) == entriesFrom(split(stringTrim(text), {"\n"}), 1, <<>>)

\* The lines a transcript file is written from.
LinePool ==
    { <<"{", "\"", "a", "\"", ":", "\"", "b", "\"", "}">>,
      <<" ", "{", "\"", "a", "\"", ":", "[", "1", ",", "t", "r", "u", "e", "]", "}", "\r">>,
      <<"{", "\"", "a", "\"", ":">>,

      <<>>,
      <<" ", "\t">>,
      <<"\f", "1", "0">> }

\* The longest file, in lines.
MaxLines == 3

RECURSIVE joinLines(_)
joinLines(lines) ==
    IF lines = <<>> THEN <<>>
    ELSE IF Len(lines) = 1 THEN lines[1]
    ELSE lines[1] \o <<"\n">> \o joinLines(Tail(lines))

\* The texts of the files: the lines joined by line feeds, with or without
\* a line feed after the last.
FileContents ==
    LET texts == {joinLines(lines) :
                     lines \in UNION {[1..n -> LinePool] : n \in 0..MaxLines}}
    IN texts \cup {text \o <<"\n">> : text \in texts}

\* The values of the analyze command's option --top <n>: the declared
\* default and a smaller one.
TopOptions == {1, DEFAULT_LIMIT}

\* A command of n characters, no two neighbours alike.
commandOf(n) ==
    [k \in 1..n |-> <<"a", "b", "c", "d", "e", "f", "g">>[((k - 1) % 7) + 1]]

\* Tool calls as a caller hands them to formatToolDescription, with commands
\* from none to 52 characters.
CallArgs ==
    {callOf("1", BashName, [command |-> commandOf(n)])[1] :
        n \in {0, 1, 27, 29, 30, 31, 34, 52}}
        \cup {callOf("1", BashName, <<>>)[1],
              callOf("1", ReadName, [file_path |-> <<"a", "/", "b", "/", "c">>])[1],
              callOf("1", GrepName, [pattern |-> commandOf(21)])[1]}

\* The turns in sequence, numbered by position as parseTurns numbers them.
numbered(ts) == [k \in 1..Len(ts) |-> [ts[k] EXCEPT !.turnIndex = k - 1]]

GivenTurns ==
    {numbered(ts) : ts \in SeqsUpTo(ContextPool, MaxTurns) \cup SeqsUpTo(ToolPool, MaxTurns)
                              \cup SeqsUpTo(RequestPool, MaxTurns)}

\* Token counters handed to calculateCost.
CostCounters == {0, 1, 500, 1000, 1000000}

UsageArgs ==
    [inputTokens : CostCounters, outputTokens : CostCounters,
     cacheCreation : CostCounters, cacheRead : CostCounters]

SessionIds == {"session-1"}

ProjectPaths == {"project"}

compactAt(turnIndex) ==
    [turnIndex |-> turnIndex, timestamp |-> 0, beforeTokens |-> 0, afterTokens |-> 0,
     tokensSaved |-> 0]

isSortedByTurnIndex(cs) == \A k \in 1..(Len(cs) - 1) : cs[k].turnIndex <= cs[k + 1].turnIndex

\* Compact lists a caller may pass to segmentSession for n turns: sorted by
\* turnIndex, every turnIndex in 0..n.
GivenCompacts(n) ==
    {cs \in SeqsUpTo({compactAt(b) : b \in 0..n}, MaxCompacts) : isSortedByTurnIndex(cs)}

Limits == (0..MaxLimit) \cup {DEFAULT_LIMIT}

----------------------------------------------------------------------------
(* The state machine.  pc = "entries": a transcript was read, parseTurns   *)
(* is next; pc = "parsed": the analyze command has its turns and builds    *)
(* the report from them.  pc = "turns": a caller of the engine has built a *)
(* turn sequence and may apply any function of the engine to it.           *)
(* pc = "segment": the caller supplies the compact list as well.           *)
(* pc = "usage": a usage tuple is at hand for calculateCost.  Afterwards   *)
(* pc names the function applied.                                          *)

Init ==
    /\ compacts = <<>>
    /\ segments = <<>>
    /\ toolStats = <<>>
    /\ fileStats = <<>>
    /\ topConsumers = <<>>
    /\ limitArg = 0
    /\ attributedTools = <<>>
    /\ userRequestStats = <<>>
    /\ toolSizeStats = <<>>
    /\ cost = Null
    /\ report = Null
    /\ decoded = <<>>
    /\ description = Null
    /\ topOption = Null
    /\ \/ /\ pc = "entries"
          /\ entries \in SeqsUpTo(EntryPool, MaxEntries)
          /\ turns = <<>>
          /\ compactArg = <<>>
          /\ usageArg = Null
          /\ fileContent = Null
          /\ callArg = Null
       \/ /\ pc = "turns"
          /\ entries = <<>>
          /\ turns \in GivenTurns
          /\ compactArg = <<>>
          /\ usageArg = Null
          /\ fileContent = Null
          /\ callArg = Null
       \/ /\ pc = "segment"
          /\ entries = <<>>
          /\ turns \in {numbered(ts) : ts \in SeqsUpTo(ContextPool, MaxTurns)}
          /\ compactArg \in GivenCompacts(Len(turns))
          /\ usageArg = Null
          /\ fileContent = Null
          /\ callArg = Null
       \/ /\ pc = "usage"
          /\ entries = <<>>
          /\ turns = <<>>
          /\ compactArg = <<>>
          /\ usageArg \in {Some(usage) : usage \in UsageArgs}
          /\ fileContent = Null
          /\ callArg = Null
       \/ /\ pc = "file"
          /\ entries = <<>>
          /\ turns = <<>>
          /\ compactArg = <<>>
          /\ usageArg = Null
          /\ fileContent \in {Some(text) : text \in FileContents}
          /\ callArg = Null
       \/ /\ pc = "call"
          /\ entries = <<>>
          /\ turns = <<>>
          /\ compactArg = <<>>
          /\ usageArg = Null
          /\ fileContent = Null
          /\ callArg \in {Some(call) : call \in CallArgs}

ParseTurns ==
    /\ pc = "entries"
    /\ turns' = parseTurns(entries)
    /\ entries' = entriesAfterParseTurns(entries)
    /\ pc' = "parsed"
    /\ UNCHANGED <<readerAndFormatter, topOption, compacts, compactArg, segments, toolStats, fileStats,
                   limitArg, attributedTools, topConsumers,
                   laterOutputs>>

DetectCompacts ==
    /\ pc = "turns"
    /\ compacts' = detectCompacts(turns)
    /\ pc' = "detectCompacts"
    /\ UNCHANGED <<readerAndFormatter, topOption, entries, turns, compactArg, segments, toolStats, fileStats,
                   limitArg, attributedTools, topConsumers,
                   laterOutputs>>

\* segmentSession(turns, detectCompacts(turns)), as generateReport calls it.
SegmentDetected ==
    /\ pc = "turns"
    /\ compacts' = detectCompacts(turns)
    /\ compactArg' = compacts'
    /\ segments' = segmentSession(turns, compacts')
    /\ pc' = "segmentSession"
    /\ UNCHANGED <<readerAndFormatter, topOption, entries, turns, toolStats, fileStats, limitArg, attributedTools,
                   topConsumers,
                   laterOutputs>>

\* segmentSession(turns, compactArg) with the caller's compact list.
SegmentSession ==
    /\ pc = "segment"
    /\ segments' = segmentSession(turns, compactArg)
    /\ pc' = "segmentSession"
    /\ UNCHANGED <<readerAndFormatter, topOption, entries, turns, compacts, compactArg, toolStats, fileStats,
                   limitArg, attributedTools, topConsumers,
                   laterOutputs>>

AggregateToolStats ==
    /\ pc = "turns"
    /\ toolStats' = aggregateToolStats(turns)
    /\ pc' = "aggregateToolStats"
    /\ UNCHANGED <<readerAndFormatter, topOption, entries, turns, compacts, compactArg, segments, fileStats,
                   limitArg, attributedTools, topConsumers,
                   laterOutputs>>

AggregateFileStats ==
    /\ pc = "turns"
    /\ fileStats' = aggregateFileStats(turns)
    /\ pc' = "aggregateFileStats"
    /\ UNCHANGED <<readerAndFormatter, topOption, entries, turns, compacts, compactArg, segments, toolStats,
                   limitArg, attributedTools, topConsumers,
                   laterOutputs>>

GetTopConsumers ==
    /\ pc = "turns"
    /\ \E limit \in Limits :
          /\ limitArg' = limit
          /\ topConsumers' = getTopConsumers(turns, limit)
    /\ attributedTools' = attributedTurns(turns)
    /\ turns' = turnsAfterGetTopConsumers(turns)
    /\ pc' = "getTopConsumers"
    /\ UNCHANGED <<readerAndFormatter, topOption, entries, compacts, compactArg, segments, toolStats, fileStats,
                   laterOutputs>>

AggregateByUserMessage ==
    /\ pc = "turns"
    /\ userRequestStats' = aggregateByUserMessage(turns)
    /\ pc' = "aggregateByUserMessage"
    /\ UNCHANGED <<readerAndFormatter, topOption, entries, turns, compacts, compactArg, segments, toolStats, fileStats,
                   limitArg, attributedTools, topConsumers, toolSizeStats, usageArg,
                   cost, report>>

AggregateToolSizeStats ==
    /\ pc = "turns"
    /\ toolSizeStats' = aggregateToolSizeStats(turns)
    /\ pc' = "aggregateToolSizeStats"
    /\ UNCHANGED <<readerAndFormatter, topOption, entries, turns, compacts, compactArg, segments, toolStats, fileStats,
                   limitArg, attributedTools, topConsumers, userRequestStats, usageArg,
                   cost, report>>

CalculateCost ==
    /\ pc = "usage"
    /\ cost' = Some(calculateCost(usageArg[1]))
    /\ pc' = "calculateCost"
    /\ UNCHANGED <<readerAndFormatter, topOption, entries, turns, compacts, compactArg, segments, toolStats, fileStats,
                   limitArg, attributedTools, topConsumers, userRequestStats,
                   toolSizeStats, usageArg, report>>

\* generateReport(sessionId, projectPath, turns): called by the analyze command
\* on the parsed turns unless there are none, and by a caller of the engine on
\* any turn sequence.  The command was started with --top n; its action hands
\* generateReport the three arguments of line 96 and reads options.top nowhere.
GenerateReport ==
    /\ pc = "turns" \/ (pc = "parsed" /\ Len(turns) # 0)
    /\ \E sessionId \in SessionIds, projectPath \in ProjectPaths :
          report' = Some(generateReport(sessionId, projectPath, turns))
    /\ topOption' \in IF pc = "parsed" THEN {Some(n) : n \in TopOptions} ELSE {Null}
    /\ turns' = turnsAfterGetTopConsumers(turns)
    /\ pc' = "generateReport"
    /\ UNCHANGED <<readerAndFormatter, entries, compacts, compactArg, segments, toolStats, fileStats,
                   limitArg, attributedTools, topConsumers, userRequestStats,
                   toolSizeStats, usageArg, cost>>

ParseJsonlFile ==
    /\ pc = "file"
    /\ decoded' = parseJsonlFile(fileContent[1])
    /\ pc' = "parseJsonlFile"
    /\ UNCHANGED <<entries, turns, compacts, compactArg, segments, toolStats, fileStats,
                   limitArg, attributedTools, topConsumers, laterOutputs,
                   fileContent, callArg, description, topOption>>

FormatToolDescription ==
    /\ pc = "call"
    /\ description' = Some(formatToolDescription(callArg[1]))
    /\ pc' = "formatToolDescription"
    /\ UNCHANGED <<entries, turns, compacts, compactArg, segments, toolStats, fileStats,
                   limitArg, attributedTools, topConsumers, laterOutputs,
                   fileContent, decoded, callArg, topOption>>

Next ==
    \/ ParseTurns
    \/ DetectCompacts
    \/ SegmentDetected
    \/ SegmentSession
    \/ AggregateToolStats
    \/ AggregateFileStats
    \/ GetTopConsumers
    \/ AggregateByUserMessage
    \/ AggregateToolSizeStats
    \/ CalculateCost
    \/ GenerateReport
    \/ FormatToolDescription
    \/ ParseJsonlFile

Spec == Init /\ [][Next]_vars

----------------------------------------------------------------------------
(* Properties of parseTurns.                                               *)

\* The turns at hand are the output of parseTurns on a non-empty stream.
Parsed == pc # "entries" /\ entries # <<>>

\* The entries the extractor is to turn into turns: type assistant, message
\* role assistant, not flagged sidechain, carrying a usage block.
IsTurnEntry(entry) ==
    /\ entry.type = "assistant"
    /\ ~entry.isSidechain
    /\ entry.message # Null
    /\ entry.message[1].role = "assistant"
    /\ entry.message[1].usage # Null

\* The positions of those entries, in stream order.
TurnPositions == SelectSeq([k \in 1..Len(entries) |-> k], LAMBDA k : IsTurnEntry(entries[k]))

\* C1: the first emitted turn has tokenDelta = contextTokens and every later
\* emitted turn has tokenDelta = its contextTokens minus the contextTokens of
\* the previously emitted turn, whatever the usage values are.
C1_DeltaIsDifference ==
    Parsed =>
        /\ Len(turns) > 0 => turns[1].tokenDelta = turns[1].contextTokens
        /\ \A k \in 2..Len(turns) :
              turns[k].tokenDelta = turns[k].contextTokens - turns[k - 1].contextTokens

\* C2: parseTurns emits exactly one turn, in stream order, for each entry that
\* is of type assistant, has role assistant, is not a sidechain and carries
\* usage, nothing for any other entry, and numbers the turns 0, 1, 2, ...
C2_OneTurnPerTurnEntry ==
    Parsed =>
        /\ Len(turns) = Len(TurnPositions)
        /\ \A k \in 1..Len(turns) :
              /\ turns[k].turnIndex = k - 1
              /\ turns[k].timestamp = entries[TurnPositions[k]].timestamp
              /\ turns[k].usage = entries[TurnPositions[k]].message[1].usage[1]

\* C2 witness: a stream with a sidechain entry, a user entry and two turns.
C2_Witness ==
    /\ Parsed
    /\ Len(turns) = 2
    /\ Len(entries) = 3
    /\ entries[2].isSidechain
    /\ turns[2].turnIndex = 1

\* The genuine user-authored text an entry carries, if any: the non-empty
\* plain string of a user message, or its first text item, that is neither a
\* local-command / command-name message nor an interruption notice.
GenuineUserText(entry) ==
    IF entry.type # "user" \/ entry.message = Null THEN <<>>
    ELSE IF entry.message[1].role # "user" THEN <<>>
    ELSE LET content == entry.message[1].content
             texts == IF content.isString THEN <<>>
                      ELSE SelectSeq(content.items, LAMBDA item : item.type = "text")
             text == IF content.isString THEN content.text
                     ELSE IF texts = <<>> THEN <<>> ELSE texts[1].text
             synthetic == \/ content.isString /\ startsWith(text, LocalCommandMarker)
                          \/ content.isString /\ startsWith(text, CommandNameMarker)
                          \/ includes(text, InterruptMarker)
         IN IF text = <<>> \/ synthetic THEN <<>> ELSE <<text>>

\* The largest element of a non-empty set of positions.
Last(positions) == CHOOSE j \in positions : \A i \in positions : i <= j

\* The smallest element of a non-empty set of positions.
First(positions) == CHOOSE j \in positions : \A i \in positions : j <= i

\* C11: every emitted turn carries as userPrompt the text of the most recent
\* preceding non-sidechain user entry with genuine user-authored text, and has
\* no userPrompt only when no such entry precedes it.
C11_PromptIsLatestUserText ==
    Parsed =>
        \A k \in 1..Len(turns) :
            LET authored == {j \in 1..(TurnPositions[k] - 1) :
                                ~entries[j].isSidechain /\ GenuineUserText(entries[j]) # <<>>}
            IN turns[k].userPrompt =
                   IF authored = {} THEN <<>> ELSE GenuineUserText(entries[Last(authored)])

ResultItems(p, toolUseId) ==
    LET holdsItems(j) == /\ entries[j].type = "user"
                         /\ entries[j].message # <<>>
                         /\ entries[j].message[1].role = "user"
                         /\ ~entries[j].message[1].content.isString
        itemsOf(j) == entries[j].message[1].content.items
    IN UNION {{<<j, i>> : i \in {h \in 1..Len(itemsOf(j)) :
                                    /\ itemsOf(j)[h].type = "tool_result"
                                    /\ itemsOf(j)[h].tool_use_id = toolUseId}} :
              j \in {h \in (p + 1)..Len(entries) : holdsItems(h)}}

\* The first of these in stream order.
FirstResultItem(p, toolUseId) ==
    LET items == ResultItems(p, toolUseId)
        at == First({pair[1] : pair \in items})
    IN <<at, First({pair[2] : pair \in {q \in items : q[1] = at}})>>

\* C13: a turn with a tool call has as result the content of the first
\* tool_result item for its toolId in the user entries after its own entry,
\* and as resultSize the length of that content; without such an item it has
\* neither.
C13_ResultIsFirstMatch ==
    Parsed =>
        \A k \in 1..Len(turns) :
            turns[k].toolCall # <<>> =>
                LET p == TurnPositions[k]
                    toolId == turns[k].toolCall[1].toolId
                    first == FirstResultItem(p, toolId)
                    content == entries[first[1]].message[1].content.items[first[2]].content
                IN IF ResultItems(p, toolId) = {}
                   THEN turns[k].toolCall[1].result = <<>> /\ turns[k].resultSize = <<>>
                   ELSE /\ turns[k].toolCall[1].result = <<content>>
                        /\ turns[k].resultSize = <<Len(content)>>

----------------------------------------------------------------------------
(* Properties of detectCompacts.                                           *)

----------------------------------------------------------------------------
(* Properties of segmentSession.                                           *)

\* The compact list is one the segmenter is specified for: sorted by
\* turnIndex, every turnIndex in 0..turns.length.
CompactArgInRange ==
    /\ isSortedByTurnIndex(compactArg)
    /\ \A k \in 1..Len(compactArg) : compactArg[k].turnIndex \in 0..Len(turns)

\* C4: the segments partition the turn positions exactly: the first starts at
\* 0, each next one starts right after the previous one ends, the last ends at
\* turns.length - 1, each owns exactly turns[startTurn..endTurn], the sizes add
\* up to turns.length, and an empty turn sequence gives no segment.
C4_SegmentsPartitionTurns ==
    (pc = "segmentSession" /\ CompactArgInRange) =>
        /\ Len(turns) = 0 => segments = <<>>
        /\ Len(turns) > 0 =>
              /\ Len(segments) >= 1
              /\ segments[1].startTurn = 0
              /\ segments[Len(segments)].endTurn = Len(turns) - 1
        /\ \A k \in 2..Len(segments) : segments[k].startTurn = segments[k - 1].endTurn + 1
        /\ \A k \in 1..Len(segments) :
              /\ segments[k].startTurn <= segments[k].endTurn
              /\ segments[k].turns =
                     SubSeq(turns, segments[k].startTurn + 1, segments[k].endTurn + 1)
        /\ sumOf([k \in 1..Len(segments) |-> Len(segments[k].turns)]) = Len(turns)

\* C4 witness: three turns cut by two compacts at the same turn into two segments.
C4_Witness ==
    /\ pc = "segmentSession"
    /\ Len(turns) = 3
    /\ Len(compactArg) = 2
    /\ compactArg[1].turnIndex = 1
    /\ compactArg[2].turnIndex = 1
    /\ Len(segments) = 2
    /\ segments[2].startTurn = 1
    /\ segments[2].endTurn = 2

\* C5: the k-th emitted segment (from 0) has index k; index 0 is labelled
\* "Pre-compact", index k >= 1 "Post-compact #k"; an empty slice emits no
\* segment and uses up no index or label number.
C5_SegmentLabels ==
    pc = "segmentSession" =>
        \A k \in 1..Len(segments) :
            /\ segments[k].index = k - 1
            /\ k = 1 => segments[k].label = [text |-> "Pre-compact", number |-> <<>>]
            /\ k > 1 => segments[k].label = [text |-> "Post-compact #", number |-> <<k - 1>>]

\* C5 witness: a compact at turn 0 and one at turn 2: the slice before the
\* first is empty, and the two segments are still numbered 0 and 1.
C5_Witness ==
    /\ pc = "segmentSession"
    /\ Len(turns) = 3
    /\ Len(compactArg) = 2
    /\ compactArg[1].turnIndex = 0
    /\ compactArg[2].turnIndex = 2
    /\ Len(segments) = 2
    /\ segments[1].label.text = "Pre-compact"
    /\ segments[2].label = [text |-> "Post-compact #", number |-> <<1>>]

----------------------------------------------------------------------------
(* Properties of the attribution resolver and of getTopConsumers.          *)

\* The turn at position k has a tool call of its own.
HasOwnCall(k) == turns[k].toolCall # Null

\* The turn at position k has none, but a positive delta and a predecessor with one.
InheritsCall(k) ==
    /\ ~HasOwnCall(k)
    /\ turns[k].tokenDelta > 0
    /\ k > 1
    /\ turns[k - 1].toolCall # Null

\* C6: the attributed call of a turn is its own tool call when it has one;
\* otherwise, when its tokenDelta > 0, it is not the first turn and the turn
\* right before it has a tool call, that call; otherwise there is none.
C6_AttributionRule ==
    pc = "getTopConsumers" =>
        /\ Len(attributedTools) = Len(turns)
        /\ \A k \in 1..Len(turns) :
              /\ HasOwnCall(k) => attributedTools[k] = turns[k].toolCall
              /\ InheritsCall(k) => attributedTools[k] = turns[k - 1].toolCall
              /\ (~HasOwnCall(k) /\ ~InheritsCall(k)) => attributedTools[k] = <<>>

\* C6 witness: call, then a turn without call and positive delta (inherits),
\* then a turn without call and positive delta whose predecessor has no call.
C6_Witness ==
    /\ pc = "getTopConsumers"
    /\ Len(turns) = 3
    /\ HasOwnCall(1)
    /\ InheritsCall(2)
    /\ ~HasOwnCall(3) /\ turns[3].tokenDelta > 0
    /\ attributedTools[2] = turns[1].toolCall
    /\ attributedTools[3] = <<>>

\* The turn at position k qualifies as a consumer.
Qualifies(k) == turns[k].tokenDelta > 0 /\ (HasOwnCall(k) \/ InheritsCall(k))

\* The turn at position k is in the result.
Listed(k) == \E c \in 1..Len(topConsumers) : topConsumers[c].turnIndex = k - 1

\* C7: the result holds only qualifying turns, each at most once, ordered by
\* tokens non-increasing, at most N of them, and they are the N largest: no
\* qualifying turn left out has a larger tokenDelta than a listed one.
C7_TopConsumersAreLargest ==
    pc = "getTopConsumers" =>
        /\ \A c \in 1..Len(topConsumers) :
              /\ topConsumers[c].turnIndex + 1 \in 1..Len(turns)
              /\ Qualifies(topConsumers[c].turnIndex + 1)
              /\ topConsumers[c].tokens = turns[topConsumers[c].turnIndex + 1].tokenDelta
        /\ \A c, d \in 1..Len(topConsumers) :
              c # d => topConsumers[c].turnIndex # topConsumers[d].turnIndex
        /\ \A c \in 1..(Len(topConsumers) - 1) :
              topConsumers[c].tokens >= topConsumers[c + 1].tokens
        /\ Len(topConsumers) =
               Min(limitArg, Cardinality({k \in 1..Len(turns) : Qualifies(k)}))
        /\ \A k \in 1..Len(turns) :
              (Qualifies(k) /\ ~Listed(k)) =>
                  \A c \in 1..Len(topConsumers) : turns[k].tokenDelta <= topConsumers[c].tokens

\* C7 witness: three qualifying turns with deltas 2, 3, 5 and a limit of 2:
\* the turns with 5 and 3 are listed, in that order.
C7_Witness ==
    /\ pc = "getTopConsumers"
    /\ limitArg = 2
    /\ Len(turns) = 3
    /\ turns[1].tokenDelta = 2 /\ turns[2].tokenDelta = 3 /\ turns[3].tokenDelta = 5
    /\ \A k \in 1..3 : Qualifies(k)
    /\ Len(topConsumers) = 2
    /\ topConsumers[1].turnIndex = 2
    /\ topConsumers[2].turnIndex = 1

\* C8: cumulative[0] = tokens[0], cumulative[i] = tokens[i] + cumulative[i-1],
\* the column never decreases, and its last value is the sum of the tokens.
C8_CumulativeColumn ==
    pc = "getTopConsumers" =>
        /\ Len(topConsumers) > 0 =>
              /\ topConsumers[1].cumulative = topConsumers[1].tokens
              /\ topConsumers[Len(topConsumers)].cumulative =
                     sumOf([c \in 1..Len(topConsumers) |-> topConsumers[c].tokens])
        /\ \A c \in 2..Len(topConsumers) :
              /\ topConsumers[c].cumulative =
                     topConsumers[c].tokens + topConsumers[c - 1].cumulative
              /\ topConsumers[c].cumulative >= topConsumers[c - 1].cumulative

\* C8 witness: three listed consumers, the cumulative column 5, 8, 10.
C8_Witness ==
    /\ pc = "getTopConsumers"
    /\ Len(topConsumers) = 3
    /\ topConsumers[1].cumulative = 5
    /\ topConsumers[2].cumulative = 8
    /\ topConsumers[3].cumulative = 10

----------------------------------------------------------------------------
(* Properties of the aggregators.                                          *)

\* The group a turn belongs to: the tool name of its attributed call, or
\* "initial_context" when it has no attribution.
GroupOf(k) ==
    IF HasOwnCall(k) THEN turns[k].toolCall[1].toolName
    ELSE IF InheritsCall(k) THEN turns[k - 1].toolCall[1].toolName
    ELSE InitialContext

\* The sum of value[k] over the positions k in members.
SumOver(members, value) ==
    sumOf([k \in 1..Len(value) |-> IF k \in members THEN value[k] ELSE 0])

\* C9: every turn is in exactly one group, keyed by the tool name of its
\* attributed call, turns without attribution in "initial_context"; a group's
\* count is the number of its turns, its input/output/cache totals the sums of
\* their usage counters (a missing cache counter as 0), its totalContextTokens
\* the sum of their tokenDelta.
C9_ToolGroups ==
    pc = "aggregateToolStats" =>
        /\ \A g, h \in 1..Len(toolStats) :
              g # h => toolStats[g].toolName # toolStats[h].toolName
        /\ \A k \in 1..Len(turns) :
              \E g \in 1..Len(toolStats) : toolStats[g].toolName = GroupOf(k)
        /\ \A g \in 1..Len(toolStats) :
              LET members == {k \in 1..Len(turns) : GroupOf(k) = toolStats[g].toolName}
                  cache(o) == IF o = <<>> THEN 0 ELSE o[1]
              IN /\ members # {}
                 /\ toolStats[g].count = Cardinality(members)
                 /\ toolStats[g].totalInputTokens =
                        SumOver(members, [k \in 1..Len(turns) |-> turns[k].usage.input_tokens])
                 /\ toolStats[g].totalOutputTokens =
                        SumOver(members, [k \in 1..Len(turns) |-> turns[k].usage.output_tokens])
                 /\ toolStats[g].totalCacheCreation =
                        SumOver(members, [k \in 1..Len(turns) |->
                                    cache(turns[k].usage.cache_creation_input_tokens)])
                 /\ toolStats[g].totalCacheRead =
                        SumOver(members, [k \in 1..Len(turns) |->
                                    cache(turns[k].usage.cache_read_input_tokens)])
                 /\ toolStats[g].totalContextTokens =
                        SumOver(members, [k \in 1..Len(turns) |-> turns[k].tokenDelta])

\* C9 witness: Read, a turn without call that inherits Read, and a turn
\* without call and without attribution: groups Read (2 turns) and
\* initial_context (1 turn), one of the Read turns lacking a cache counter.
C9_Witness ==
    /\ pc = "aggregateToolStats"
    /\ Len(turns) = 3
    /\ HasOwnCall(1) /\ turns[1].toolCall[1].toolName = ReadName
    /\ turns[1].usage.cache_creation_input_tokens = <<>>
    /\ InheritsCall(2)
    /\ ~HasOwnCall(3) /\ ~InheritsCall(3)
    /\ Len(toolStats) = 2
    /\ \E g \in 1..2 : toolStats[g].toolName = ReadName /\ toolStats[g].count = 2
    /\ \E g \in 1..2 : toolStats[g].toolName = InitialContext /\ toolStats[g].count = 1

\* The path a turn is counted under: input.file_path for Read / Edit / Write /
\* NotebookEdit, "pattern:" followed by input.pattern for Glob / Grep; no path
\* for any other tool, for no tool, and when the input lacks the field.
CountedPath(k) ==
    IF ~HasOwnCall(k) THEN <<>>
    ELSE LET call == turns[k].toolCall[1]
         IN IF /\ call.toolName \in {ReadName, EditName, WriteName, NotebookEditName}
               /\ "file_path" \in DOMAIN call.input
            THEN <<call.input["file_path"]>>
            ELSE IF call.toolName \in {GlobName, GrepName} /\ "pattern" \in DOMAIN call.input
                 THEN <<PatternPrefix \o call.input["pattern"]>>
                 ELSE <<>>

\* The (toolName, path) pairs of the counted turns.
CountedPairs ==
    {<<turns[k].toolCall[1].toolName, CountedPath(k)[1]>> :
        k \in {j \in 1..Len(turns) : CountedPath(j) # <<>>}}

\* C10: one result entry per distinct (toolName, path) pair of the counted
\* turns; the entry's filePath is exactly that path (the full file_path or the
\* full "pattern:<pattern>" string), its count the number of such turns, its
\* totalTokens the sum of their tokenDelta, avgTokens the rounded quotient.
C10_FileEntriesCarryFullPath ==
    pc = "aggregateFileStats" =>
        /\ Len(fileStats) = Cardinality(CountedPairs)
        /\ \A pair \in CountedPairs :
              LET members == {k \in 1..Len(turns) :
                                 /\ CountedPath(k) = <<pair[2]>>
                                 /\ turns[k].toolCall[1].toolName = pair[1]}
                  total == SumOver(members, [k \in 1..Len(turns) |-> turns[k].tokenDelta])
              IN \E e \in 1..Len(fileStats) :
                    /\ fileStats[e].toolName = pair[1]
                    /\ fileStats[e].filePath = <<pair[2]>>
                    /\ fileStats[e].count = Cardinality(members)
                    /\ fileStats[e].totalTokens = total
                    /\ fileStats[e].avgTokens = (2 * total + Cardinality(members))
                                                    \div (2 * Cardinality(members))

----------------------------------------------------------------------------
(* Properties of generateReport and calculateCost.                         *)

\* The fields of SessionReport (types.ts).
ReportFields ==
    {"sessionId", "projectPath", "startTimestamp", "endTimestamp", "duration",
     "totalTurns", "totalInputTokens", "totalOutputTokens", "totalCacheCreation",
     "totalCacheRead", "totalContextTokens", "peakContext", "peakContextPercent",
     "modelWindow", "estimatedCost", "segments", "compactEvents", "topConsumers",
     "userRequestStats", "toolStats", "fileStats", "toolSizeStats"}

\* C14: the report generateReport returns has every field of SessionReport,
\* userRequestStats and toolSizeStats included.
C14_ReportIsComplete ==
    pc = "generateReport" => ReportFields \subseteq DOMAIN report[1]

\* The largest of a non-empty set of numbers.
Greatest(numbers) == CHOOSE n \in numbers : \A m \in numbers : m <= n

\* C15: report.peakContext is the maximum contextTokens over all turns (0 for
\* no turns) and the maximum of peakContext over the report's segments,
\* whatever the context values are.
C15_PeakConsistency ==
    pc = "generateReport" =>
        LET r == report[1]
        IN /\ r.peakContext =
                  IF turns = <<>> THEN 0
                  ELSE Greatest({turns[k].contextTokens : k \in 1..Len(turns)})
           /\ r.segments # <<>> =>
                  r.peakContext =
                      Greatest({r.segments[g].peakContext : g \in 1..Len(r.segments)})

\* 4,000,000 times the double c, not rounded: 4,000,000 = 15625 * 2^8.
FourMillionTimes(c) == [neg |-> c.neg, m |-> bigMulSmall(c.m, 15625), e |-> c.e + 8]

\* The linear form of the four rates, scaled by 4,000,000.
ScaledCost(inputTokens, outputTokens, cacheCreation, cacheRead) ==
    60 * inputTokens + 300 * outputTokens + 75 * cacheCreation + 6 * cacheRead

\* The number of binary places below the point in the unrounded number x.
Places(x) == IF x.e < 0 THEN 0 - x.e ELSE 0

\* |x - n| * 2^Places(x) for an unrounded number x and an integer n: a
\* natural number, 0 exactly when x = n.
Distance(x, n) ==
    LET X == shiftLeft(x.m, x.e + Places(x))
        Y == shiftLeft(bigOf(abs(n)), Places(x))
    IN IF X # <<>> /\ Y # <<>> /\ x.neg # (n < 0) THEN bigAdd(X, Y)
       ELSE IF bigCmp(X, Y) >= 0 THEN bigSub(X, Y)
       ELSE bigSub(Y, X)

\* 4,000,000 * c is the linear form of the four counters exactly.
ExactCost(c, inputTokens, outputTokens, cacheCreation, cacheRead) ==
    Distance(FourMillionTimes(c),
             ScaledCost(inputTokens, outputTokens, cacheCreation, cacheRead)) = <<>>

\* 4,000,000 * c is within 2^-50 of the linear form of the four counters,
\* relative to the form taken over the counters' magnitudes.
NearCost(c, inputTokens, outputTokens, cacheCreation, cacheRead) ==
    LET x == FourMillionTimes(c)
        n == ScaledCost(inputTokens, outputTokens, cacheCreation, cacheRead)
        size == ScaledCost(abs(inputTokens), abs(outputTokens),
                           abs(cacheCreation), abs(cacheRead))
    IN bigCmp(shiftLeft(Distance(x, n), 50), shiftLeft(bigOf(size), Places(x))) <= 0

\* The four session-wide sums of the turns' usage counters.
UsageSums ==
    LET all == 1..Len(turns)
        cache(o) == IF o = <<>> THEN 0 ELSE o[1]
    IN [inputTokens |-> SumOver(all, [k \in all |-> turns[k].usage.input_tokens]),
        outputTokens |-> SumOver(all, [k \in all |-> turns[k].usage.output_tokens]),
        cacheCreation |->
            SumOver(all, [k \in all |->
                             cache(turns[k].usage.cache_creation_input_tokens)]),
        cacheRead |->
            SumOver(all, [k \in all |->
                             cache(turns[k].usage.cache_read_input_tokens)])]

\* C18 as stated: 4,000,000 * calculateCost(u) = 60 * inputTokens
\* + 300 * outputTokens + 75 * cacheCreation + 6 * cacheRead exactly, with no
\* rounding, and report.estimatedCost is that exact form of the four sums of
\* the turns' usage counters.
C18_CostIsExactlyLinear ==
    /\ pc = "calculateCost" =>
          LET u == usageArg[1]
          IN ExactCost(cost[1], u.inputTokens, u.outputTokens,
                       u.cacheCreation, u.cacheRead)
    /\ pc = "generateReport" =>
          LET u == UsageSums
          IN ExactCost(report[1].estimatedCost, u.inputTokens, u.outputTokens,
                       u.cacheCreation, u.cacheRead)

\* C18 amended: 4,000,000 * calculateCost(u) is the linear form 60 *
\* inputTokens + 300 * outputTokens + 75 * cacheCreation + 6 * cacheRead up
\* to the rounding of the double operations, a relative error of at most
\* 2^-50; one million of each counter costs exactly 110.25 = 441 / 4; and
\* report.estimatedCost is the same function of the four sums of the turns'
\* usage counters.
C18_CostIsLinearUpToRounding ==
    /\ pc = "calculateCost" =>
          LET u == usageArg[1]
          IN /\ NearCost(cost[1], u.inputTokens, u.outputTokens,
                         u.cacheCreation, u.cacheRead)
             /\ (\A key \in DOMAIN u : u[key] = 1000000) =>
                    ExactCost(cost[1], 1000000, 1000000, 1000000, 1000000)
    /\ pc = "generateReport" =>
          LET u == UsageSums
          IN NearCost(report[1].estimatedCost, u.inputTokens, u.outputTokens,
                      u.cacheCreation, u.cacheRead)

\* C18 witness: calculateCost applied to one million of each counter has
\* returned 110.25, that is 441 * 2^-2.
C18_Witness ==
    /\ pc = "calculateCost"
    /\ \A key \in DOMAIN usageArg[1] : usageArg[1][key] = 1000000
    /\ Distance([neg |-> cost[1].neg, m |-> bigMulSmall(cost[1].m, 4), e |-> cost[1].e],
                441) = <<>>

\* C20: on an empty turn sequence detectCompacts, segmentSession, the
\* aggregators and getTopConsumers return nothing, and generateReport returns
\* a report with totalTurns 0, peakContext 0, all token totals 0 and empty
\* start and end timestamps.
C20_EmptyInput ==
    turns = <<>> =>
        /\ pc = "detectCompacts" => compacts = <<>>
        /\ pc = "segmentSession" => segments = <<>>
        /\ pc = "aggregateToolStats" => toolStats = <<>>
        /\ pc = "aggregateFileStats" => fileStats = <<>>
        /\ pc = "getTopConsumers" => topConsumers = <<>>
        /\ pc = "generateReport" =>
              LET r == report[1]
              IN /\ r.totalTurns = 0
                 /\ r.peakContext = 0
                 /\ r.totalInputTokens = 0 /\ r.totalOutputTokens = 0
                 /\ r.totalCacheCreation = 0 /\ r.totalCacheRead = 0
                 /\ r.totalContextTokens = 0
                 /\ r.startTimestamp = <<>> /\ r.endTimestamp = <<>>
                 /\ r.compactEvents = <<>> /\ r.segments = <<>>
                 /\ r.toolStats = <<>> /\ r.fileStats = <<>> /\ r.topConsumers = <<>>

\* C20 witness: the report of no turns.
C20_Witness ==
    /\ pc = "generateReport"
    /\ turns = <<>>
    /\ report # <<>>
    /\ report[1].totalTurns = 0
    /\ report[1].peakContext = 0

----------------------------------------------------------------------------
(* Properties of aggregateByUserMessage and aggregateToolSizeStats.        *)

\* The positions at which a maximal run of turns under one prompt begins.
RunStarts ==
    {k \in 1..Len(turns) :
        k = 1 \/ promptLabel(turns[k]) # promptLabel(turns[k - 1])}

\* The last position of the run that begins at position s.
RunEnd(s) ==
    Last({k \in s..Len(turns) :
             \A j \in s..k : promptLabel(turns[j]) = promptLabel(turns[s])})

\* C16: aggregateByUserMessage yields one group per maximal run of
\* consecutive turns with the same userPrompt ("(initial context)" for an
\* absent prompt), a recurring prompt starting a new group; each group has
\* the run's length, its summed tokenDelta, its number of turns with a tool
\* call and its first and last turnIndex; the groups are in descending order
\* of totalTokens.
C16_GroupsAreRuns ==
    pc = "aggregateByUserMessage" =>
        /\ Len(userRequestStats) = Cardinality(RunStarts)
        /\ \A s \in RunStarts :
              \E g \in 1..Len(userRequestStats) :
                  LET run == s..RunEnd(s)
                      group == userRequestStats[g]
                  IN /\ group.userPrompt = promptLabel(turns[s])
                     /\ group.turnCount = Cardinality(run)
                     /\ group.totalTokens =
                            SumOver(run, [k \in 1..Len(turns) |-> turns[k].tokenDelta])
                     /\ group.toolCount =
                            Cardinality({k \in run : turns[k].toolCall # Null})
                     /\ group.startTurn = turns[s].turnIndex
                     /\ group.endTurn = turns[RunEnd(s)].turnIndex
        /\ \A g \in 1..Len(userRequestStats), h \in 1..Len(userRequestStats) :
              g < h => userRequestStats[g].totalTokens >= userRequestStats[h].totalTokens

\* C16 witness: a prompt recurs after a different one and has two groups.
C16_Witness ==
    /\ pc = "aggregateByUserMessage"
    /\ Len(userRequestStats) = 3
    /\ \E g \in 1..3, h \in 1..3 :
          /\ g # h
          /\ userRequestStats[g].userPrompt = userRequestStats[h].userPrompt

\* The positions of the turns with a call of the tool toolName.
CallsOf(toolName) ==
    {k \in 1..Len(turns) :
        turns[k].toolCall # Null /\ turns[k].toolCall[1].toolName = toolName}

\* The positions among members whose call has the file_path path.
CallsOn(members, path) ==
    {k \in members : field(turns[k].toolCall[1].input, "file_path") = Some(path)}

\* The summed result size of the turns at the positions members.
SizeOver(members) ==
    SumOver(members, [k \in 1..Len(turns) |-> OrZero(turns[k].resultSize)])

\* C17: aggregateToolSizeStats returns one group per tool name among the
\* turns with a tool call of their own, with the number of those turns and
\* the sum of their resultSize (0 when missing); turns without a call make
\* and change no group, so no group is named "initial_context"; the file
\* entries of a group are keyed by input.file_path in first-seen order, each
\* with its summed size and the count of its turns.
C17_SizeGroups ==
    pc = "aggregateToolSizeStats" =>
        LET groups == 1..Len(toolSizeStats)
        IN /\ {toolSizeStats[g].toolName : g \in groups} =
                  {turns[k].toolCall[1].toolName :
                      k \in {j \in 1..Len(turns) : turns[j].toolCall # Null}}
           /\ \A g \in groups, h \in groups :
                  g # h => toolSizeStats[g].toolName # toolSizeStats[h].toolName
           /\ \A g \in groups :
                  LET group == toolSizeStats[g]
                      calls == CallsOf(group.toolName)
                      files == 1..Len(group.files)
                  IN /\ group.toolName # InitialContext
                     /\ group.count = Cardinality(calls)
                     /\ group.totalSizeBytes = SizeOver(calls)
                     /\ \A k \in calls :
                            LET path == field(turns[k].toolCall[1].input, "file_path")
                            IN path # Null =>
                                   \E f \in files : group.files[f].path = path[1]
                     /\ \A f \in files :
                            LET on == CallsOn(calls, group.files[f].path)
                            IN /\ on # {}
                               /\ group.files[f].count = Cardinality(on)
                               /\ group.files[f].sizeBytes = SizeOver(on)
                     /\ \A f \in files, f2 \in files :
                            f < f2 =>
                                First(CallsOn(calls, group.files[f].path))
                                    < First(CallsOn(calls, group.files[f2].path))

\* C17 witness: a turn without a call carries a result size, and the two
\* Read calls after it make one group of two files.
C17_Witness ==
    /\ pc = "aggregateToolSizeStats"
    /\ \E k \in 1..Len(turns) : turns[k].toolCall = Null /\ turns[k].resultSize # Null
    /\ Len(toolSizeStats) = 1
    /\ toolSizeStats[1].count = 2
    /\ toolSizeStats[1].totalSizeBytes = 8
    /\ Len(toolSizeStats[1].files) = 2

----------------------------------------------------------------------------
(* Properties of percentOfSession.                                         *)

\* The sum of tokenDelta over all turns.
SessionTotal == SumOver(1..Len(turns), [k \in 1..Len(turns) |-> turns[k].tokenDelta])

\* The sum of the magnitudes of the groups' totalContextTokens.
GroupMagnitudes ==
    sumOf([g \in 1..Len(toolStats) |-> abs(toolStats[g].totalContextTokens)])

\* The groups' percentages added up in the order of the list.
RECURSIVE PercentSumFrom(_, _)
PercentSumFrom(g, sum) ==
    IF g > Len(toolStats) THEN sum
    ELSE PercentSumFrom(g + 1, plus(sum, toolStats[g].percentOfSession))

PercentSum == PercentSumFrom(1, numberOf(0))

\* Every group's percentOfSession is the double 0.
AllPercentagesZero ==
    \A g \in 1..Len(toolStats) : toolStats[g].percentOfSession.m = <<>>

\* percent * total is within 2^-50 of 100 * contextTokens, relatively.
NearPercent(percent, contextTokens, total) ==
    LET x == [neg |-> percent.neg, m |-> bigMulSmall(percent.m, total), e |-> percent.e]
    IN bigCmp(shiftLeft(Distance(x, 100 * contextTokens), 50),
              shiftLeft(bigOf(abs(100 * contextTokens)), Places(x))) <= 0

\* The sum s of the percentages is within 2^-50 of 100, relative to the
\* percentages' magnitudes 100 * |contextTokens| / total.
NearHundred(s, total) ==
    bigCmp(shiftLeft(bigMulSmall(Distance(s, 100), total), 50),
           shiftLeft(bigOf(100 * GroupMagnitudes), Places(s))) <= 0

\* C19 as stated: with a strictly positive sum of tokenDelta each group's
\* percentOfSession is its totalContextTokens divided by the sum times 100 and
\* the groups' percentages add up to 100; with a sum of 0 or below every
\* percentOfSession is 0.
C19_PercentagesAddToHundred ==
    pc = "aggregateToolStats" =>
        IF SessionTotal > 0
        THEN /\ \A g \in 1..Len(toolStats) :
                    toolStats[g].percentOfSession =
                        percentOf(toolStats[g].totalContextTokens, SessionTotal)
             /\ Distance(PercentSum, 100) = <<>>
        ELSE AllPercentagesZero

\* C19 amended: with a strictly positive sum of tokenDelta each group's
\* percentOfSession is the double (totalContextTokens / sum) * 100, within a
\* relative error of 2^-50 of the exact percentage, and the percentages add up
\* to 100 up to the same rounding; with a sum of 0 or below every
\* percentOfSession is 0.
C19_PercentagesUpToRounding ==
    pc = "aggregateToolStats" =>
        IF SessionTotal > 0
        THEN /\ \A g \in 1..Len(toolStats) :
                    /\ toolStats[g].percentOfSession =
                           percentOf(toolStats[g].totalContextTokens, SessionTotal)
                    /\ NearPercent(toolStats[g].percentOfSession,
                                   toolStats[g].totalContextTokens, SessionTotal)
             /\ NearHundred(PercentSum, SessionTotal)
        ELSE AllPercentagesZero

\* C19 witness: two groups or more, each with a positive totalContextTokens,
\* whose percentages do not add up to 100 exactly.
C19_Witness ==
    /\ pc = "aggregateToolStats"
    /\ SessionTotal > 0
    /\ Len(toolStats) >= 2
    /\ \A g \in 1..Len(toolStats) : toolStats[g].totalContextTokens > 0
    /\ Distance(PercentSum, 100) # <<>>

----------------------------------------------------------------------------
(* Properties of the segments' statistics and of the detected boundaries.  *)

\* C25: every emitted segment has peakContext equal to the maximum
\* contextTokens of the turns it owns, peakContextPercent equal to
\* peakContext / 200000 * 100 as doubles give it (within 2^-50, relatively, of
\* the exact percentage), totalTokens equal to the sum of their tokenDelta, and
\* startTimestamp / endTimestamp equal to the timestamps of its first and last
\* turn.
C25_SegmentStatistics ==
    pc = "segmentSession" =>
        \A k \in 1..Len(segments) :
            LET segment == segments[k]
                own == segment.turns
                all == 1..Len(own)
            IN /\ own # <<>>
               /\ segment.peakContext = Greatest({own[j].contextTokens : j \in all})
               /\ NearPercent(segment.peakContextPercent, segment.peakContext, 200000)
               /\ segment.totalTokens = sumOf([j \in all |-> own[j].tokenDelta])
               /\ segment.startTimestamp = own[1].timestamp
               /\ segment.endTimestamp = own[Len(own)].timestamp

\* C25 witness: a segment of two turns or more whose peak is not the context
\* of its last turn and whose first and last timestamps differ.
C25_Witness ==
    /\ pc = "segmentSession"
    /\ \E k \in 1..Len(segments) :
          LET own == segments[k].turns
          IN /\ Len(own) >= 2
             /\ segments[k].peakContext > own[Len(own)].contextTokens
             /\ segments[k].peakContext > 0
             /\ segments[k].startTimestamp # segments[k].endTimestamp

----------------------------------------------------------------------------
(* Properties of the order of the aggregators' results.                    *)

\* The first turn position of the by-tool group toolName.
GroupFirstSeen(toolName) == First({k \in 1..Len(turns) : GroupOf(k) = toolName})

\* The text of a path before its first ":" (the part the result entry keeps).
BeforeColon(path) == split(path, {":"})[1]

\* The first turn position filed under the by-file entry.
FileFirstSeen(entry) ==
    First({k \in 1..Len(turns) :
              /\ CountedPath(k) # <<>>
              /\ turns[k].toolCall[1].toolName = entry.toolName
              /\ <<BeforeColon(CountedPath(k)[1])>> = entry.filePath})

\* C26: aggregateToolStats returns its groups in non-increasing order of
\* totalContextTokens and aggregateFileStats its entries in non-increasing
\* order of totalTokens, negative deltas included; groups with equal totals
\* keep their first-seen order.
C26_ResultsAreOrdered ==
    /\ pc = "aggregateToolStats" =>
          \A g \in 1..Len(toolStats), h \in 1..Len(toolStats) :
              g < h =>
                  /\ toolStats[g].totalContextTokens >= toolStats[h].totalContextTokens
                  /\ toolStats[g].totalContextTokens = toolStats[h].totalContextTokens =>
                         GroupFirstSeen(toolStats[g].toolName)
                             < GroupFirstSeen(toolStats[h].toolName)
    /\ pc = "aggregateFileStats" =>
          \A g \in 1..Len(fileStats), h \in 1..Len(fileStats) :
              g < h =>
                  /\ fileStats[g].totalTokens >= fileStats[h].totalTokens
                  /\ fileStats[g].totalTokens = fileStats[h].totalTokens =>
                         FileFirstSeen(fileStats[g]) < FileFirstSeen(fileStats[h])

\* C26 witness: three by-tool groups, the one seen last first in the result
\* and the two others tied behind it.
C26_Witness ==
    /\ pc = "aggregateToolStats"
    /\ Len(toolStats) = 3
    /\ toolStats[2].totalContextTokens = toolStats[3].totalContextTokens
    /\ GroupFirstSeen(toolStats[1].toolName) = 3

----------------------------------------------------------------------------
(* Properties of the tool call of a turn.                                  *)

\* The content items of the entry that became the k-th turn.
TurnItems(k) == entries[TurnPositions[k]].message[1].content.items

\* The positions of the tool_use items among the content items.
ToolUses(items) == {j \in 1..Len(items) : items[j].type = "tool_use"}

\* C27: a turn's toolCall is built from the first tool_use item of the message
\* (toolId, toolName, input, isError false) and is absent when the message
\* has no such item; of several tool_use items only the first is recorded, and
\* the later ones neither change the turn nor produce further turns.
C27_FirstToolUseOnly ==
    Parsed =>
        /\ Len(turns) = Len(TurnPositions)
        /\ \A k \in 1..Len(turns) :
              LET items == TurnItems(k)
                  uses == ToolUses(items)
              IN /\ uses = {} => turns[k].toolCall = Null
                 /\ uses # {} =>
                        /\ turns[k].toolCall # Null
                        /\ turns[k].toolCall[1].toolId = items[First(uses)].id
                        /\ turns[k].toolCall[1].toolName = items[First(uses)].name
                        /\ turns[k].toolCall[1].input = items[First(uses)].input
                        /\ turns[k].toolCall[1].isError = FALSE

\* C27 witness: a message with two tool_use items behind a text item has
\* become one turn, followed by a turn without a tool call.
C27_Witness ==
    /\ Parsed
    /\ Len(turns) = 2
    /\ Cardinality(ToolUses(TurnItems(1))) = 2
    /\ First(ToolUses(TurnItems(1))) = 2
    /\ turns[1].toolCall # Null
    /\ turns[1].toolCall[1].toolId = "toolu_01"
    /\ turns[2].toolCall = Null

----------------------------------------------------------------------------
(* Properties of segmentSession on the output of detectCompacts.           *)

\* The segments ss are cut at the compact events cs of a non-empty turn
\* sequence: one segment more than events, and the segment after the k-th
\* event starts at that event's turnIndex.
CutAtEvents(ss, cs) ==
    /\ Len(ss) = Len(cs) + 1
    /\ \A k \in 1..Len(cs) : ss[k + 1].startTurn = cs[k].turnIndex

\* C28: when the compact list is the output of detectCompacts on the same
\* turns, no boundary slice is empty: a non-empty turn sequence gives exactly
\* one segment more than compact events, and for every k >= 1 segment k
\* starts at compactEvents[k - 1].turnIndex, in the report as well.
C28_SegmentsFollowEvents ==
    /\ (pc = "segmentSession" /\ compactArg = detectCompacts(turns) /\ turns # <<>>) =>
          CutAtEvents(segments, compactArg)
    /\ (pc = "generateReport" /\ turns # <<>>) =>
          CutAtEvents(report[1].segments, report[1].compactEvents)

\* C28 witness: two detected compact events at neighbouring turns and the
\* three segments they cut.
C28_Witness ==
    /\ pc = "segmentSession"
    /\ compacts = detectCompacts(turns)
    /\ compactArg = compacts
    /\ Len(compacts) = 2
    /\ compacts[2].turnIndex = compacts[1].turnIndex + 1
    /\ Len(segments) = 3

\* No two consecutive turns owned by one segment of ss form a drop to below
\* half of a positive context, and every such drop in the turn sequence is at
\* the start of a segment.
DropsOnlyAtBoundaries(ss) ==
    /\ \A k \in 1..Len(ss) :
          \A j \in 1..(Len(ss[k].turns) - 1) :
              LET a == ss[k].turns[j]
                  b == ss[k].turns[j + 1]
              IN ~(a.contextTokens > 0 /\ 2 * b.contextTokens < a.contextTokens)
    /\ \A i \in 1..(Len(turns) - 1) :
          (turns[i].contextTokens > 0
              /\ 2 * turns[i + 1].contextTokens < turns[i].contextTokens) =>
                  \E k \in 1..Len(ss) : ss[k].startTurn = i

\* C30: no segment built from the output of detectCompacts contains a
\* compaction: for every two consecutive turns a, b owned by the same segment
\* it is not the case that a.contextTokens > 0 and b.contextTokens <
\* a.contextTokens * 0.5; every such drop falls on a segment boundary.
C30_NoCompactInsideSegment ==
    /\ (pc = "segmentSession" /\ compactArg = detectCompacts(turns)) =>
          DropsOnlyAtBoundaries(segments)
    /\ pc = "generateReport" => DropsOnlyAtBoundaries(report[1].segments)

\* C30 witness: a drop to a context of 0 after two turns: the first segment
\* owns two turns and the second starts at the drop.
C30_Witness ==
    /\ pc = "generateReport"
    /\ Len(turns) = 3
    /\ turns[2].contextTokens > 0
    /\ turns[3].contextTokens = 0
    /\ Len(report[1].segments) = 2
    /\ Len(report[1].segments[1].turns) = 2
    /\ report[1].segments[2].startTurn = 2

----------------------------------------------------------------------------
(* Properties of the report of a parsed stream.                            *)

\* Every usage counter of the stream's entries is 0 or more.
CountersNonNegative ==
    \A k \in 1..Len(entries) :
        (entries[k].message # Null /\ entries[k].message[1].usage # Null) =>
            LET usage == entries[k].message[1].usage[1]
            IN /\ usage.input_tokens >= 0
               /\ usage.output_tokens >= 0
               /\ OrZero(usage.cache_creation_input_tokens) >= 0
               /\ OrZero(usage.cache_read_input_tokens) >= 0

\* C29: for turns produced by parseTurns from entries whose usage counters are
\* all non-negative the deltas telescope: the sum of tokenDelta over all
\* turns, which is report.totalContextTokens, the sum of totalTokens over the
\* segments and the sum of totalContextTokens over the by-tool groups, equals
\* the contextTokens of the last turn.
C29_DeltasTelescope ==
    (pc = "generateReport" /\ Parsed /\ CountersNonNegative) =>
        LET r == report[1]
            last == turns[Len(turns)].contextTokens
        IN /\ sumOf([k \in 1..Len(turns) |-> turns[k].tokenDelta]) = last
           /\ r.totalContextTokens = last
           /\ sumOf([k \in 1..Len(r.segments) |-> r.segments[k].totalTokens]) = last
           /\ sumOf([k \in 1..Len(r.toolStats) |-> r.toolStats[k].totalContextTokens]) = last

\* C29 witness: a parsed stream of three turns whose context falls and rises
\* again, cut into two segments.
C29_Witness ==
    /\ pc = "generateReport"
    /\ Parsed
    /\ CountersNonNegative
    /\ Len(turns) = 3
    /\ turns[2].tokenDelta < 0
    /\ turns[3].tokenDelta > 0
    /\ Len(report[1].segments) = 2
    /\ report[1].totalContextTokens = turns[3].contextTokens

----------------------------------------------------------------------------
(* Properties of formatToolDescription.                                    *)

\* s is a prefix of t.
IsPrefix(s, t) == Len(s) <= Len(t) /\ s = SubSeq(t, 1, Len(s))

\* C24: the description of a Bash call is "Bash " followed by the first 30
\* characters of the command (the whole command when it has at most 30), so
\* it is at most 35 characters long and what follows "Bash " is a prefix of
\* the command.
C24_BashDescriptionIsPrefix ==
    (/\ pc = "formatToolDescription"
     /\ callArg[1].toolName = BashName
     /\ "command" \in DOMAIN callArg[1].input) =>
        LET command == callArg[1].input["command"]
            text == description[1]
            rest == SubSeq(text, 6, Len(text))
        IN /\ SubSeq(text, 1, 5) = <<"B", "a", "s", "h", " ">>
           /\ rest = SubSeq(command, 1, Min(30, Len(command)))
           /\ Len(text) <= 35
           /\ IsPrefix(rest, command)

----------------------------------------------------------------------------
(* Properties of parseJsonlFile.                                           *)

\* The lines parseJsonlFile walks: those of the text without the white space
\* at its two ends.
FileLines == split(stringTrim(fileContent[1]), {"\n"})

IsBlankLine(line) == \A k \in 1..Len(line) : line[k] \in TrimWhitespace

\* The positions of the lines that are not blank and decode.
DecodablePositions ==
    {k \in 1..Len(FileLines) :
        ~IsBlankLine(FileLines[k]) /\ JSON_parse(FileLines[k]) # Null}

\* The positions of the lines that are not blank and fail to decode.
CorruptPositions ==
    {k \in 1..Len(FileLines) :
        ~IsBlankLine(FileLines[k]) /\ JSON_parse(FileLines[k]) = Null}

\* C21: parseJsonlFile drops a line that fails to decode and goes on with
\* the next one: the returned entries are exactly the decoded non-blank
\* lines that decode, one entry each and in the order of the lines, wherever
\* the corrupt lines stand.
C21_SkipAndContinue ==
    pc = "parseJsonlFile" =>
        LET lines == FileLines
            positions == {k \in 1..Len(lines) :
                             ~IsBlankLine(lines[k]) /\ JSON_parse(lines[k]) # Null}
        IN /\ positions = DecodablePositions
           /\ Len(decoded) = Cardinality(positions)
           /\ \A k \in positions :
                 decoded[Cardinality({j \in positions : j <= k})]
                     = JSON_parse(lines[k])[1]

\* A corrupt line stands between two lines that decode, another one may
\* stand anywhere, and both decoded lines are returned.
C21_Witness ==
    /\ pc = "parseJsonlFile"
    /\ \E first, last \in DecodablePositions :
          /\ first < last
          /\ \E k \in CorruptPositions : first < k /\ k < last
          /\ decoded = <<JSON_parse(FileLines[first])[1], JSON_parse(FileLines[last])[1]>>
          /\ decoded[1] # decoded[2]

----------------------------------------------------------------------------
(* Properties of the analyze command's options.                            *)

\* The number of turns that qualify as consumers.
QualifyingTurns == Cardinality({k \in 1..Len(turns) : Qualifies(k)})

\* C23: the report built by analyze --top n holds at most n top consumers,
\* and exactly n when at least n turns qualify.
C23_TopOptionLimitsReport ==
    (pc = "generateReport" /\ topOption # Null) =>
        /\ Len(report[1].topConsumers) <= topOption[1]
        /\ QualifyingTurns >= topOption[1] =>
              Len(report[1].topConsumers) = topOption[1]

----------------------------------------------------------------------------
(* Properties of the stages' inputs.                                       *)

\* The stages that read the entries and the stages that read the turns.
ReadsEntries == pc = "entries"

ReadsTurns == pc \in {"turns", "parsed"}

====
